---- MODULE Spec2Model ----
(***************************************************************************)
(* Model of the knowledge-base health engine (dewey/skills/health):        *)
(* per-document validators, the auto-fix engine, the curation-plan fixer,  *)
(* the run_health_check orchestrator and the recommendation classifier.    *)
(*                                                                         *)
(* A document is a sequence of lines.  A line is a record [k, a]: k is the *)
(* kind of line (what its text starts with / contains) and a its argument  *)
(* (a heading title, a frontmatter value, a link stem).  Every string test *)
(* of the source (startswith, substring, regex) is an operator over lines. *)
(* Indices are 0-based as in the source; At(s, i) reads s[i].               *)
(***************************************************************************)
EXTENDS Integers, Sequences, FiniteSets, TLC

VARIABLES files, plan, fixes, op, runs, prevFiles, prevPlan,
          utilLog, minReads, minDays, recResult,
          lastIssues, healthLog, lastResult, mergeFile, mergeSection

vars == <<files, plan, fixes, op, runs, prevFiles, prevPlan,
          utilLog, minReads, minDays, recResult,
          lastIssues, healthLog, lastResult, mergeFile, mergeSection>>

kbVars == <<files, plan, fixes, op, runs, prevFiles, prevPlan>>
recVars == <<utilLog, minReads, minDays, recResult>>
\* lastIssues: the issue list the last validator call returned; healthLog: the lines
\* of .dewey/history/health-log.jsonl
\* lastResult: the value the last call of a pure helper returned
reportVars == <<lastIssues, healthLog, lastResult>>
\* mergeFile: the file merge_managed_section works on; mergeSection: the managed
\* section last merged into it
mergeVars == <<mergeFile, mergeSection>>

(***************************************************************************)
(* Bounds                                                                  *)
(***************************************************************************)
MaxBody == 4          \* body lines of the document in SpecSections
MaxRuns == 2          \* operations per behaviour
MaxTopicBody == 2     \* body lines of the working document in SpecHealth
MaxHealthPlan == 2    \* lines of the curation plan in SpecHealth
MaxPlan == 4          \* lines of the curation plan in SpecPlan

(***************************************************************************)
(* Generic helpers                                                         *)
(***************************************************************************)
None == -1

At(s, i) == s[i + 1]

Mk(k, a) == [k |-> k, a |-> a]

SetMax(S) == CHOOSE x \in S : \A y \in S : y <= x
SetMin(S) == CHOOSE x \in S : \A y \in S : x <= y

\* list.insert of the elements xs, in order, at index i0 (0-based)
InsertAt(s, i0, xs) == SubSeq(s, 1, i0) \o xs \o SubSeq(s, i0 + 1, Len(s))

RECURSIVE SeqsUpTo(_, _)
SeqsUpTo(V, n) ==
    IF n = 0 THEN {<<>>}
    ELSE LET shorter == SeqsUpTo(V, n - 1)
         IN shorter \cup {Append(s, v) : s \in {t \in shorter : Len(t) = n - 1}, v \in V}

Range(s) == {s[i] : i \in 1..Len(s)}

IndexOf(s, x) == SetMin({i \in 1..Len(s) : s[i] = x})

(***************************************************************************)
(* Lines of a document                                                     *)
(***************************************************************************)
Delim == Mk("delim", "")                 \* "---"
Blank == Mk("blank", "")                 \* ""
H1 == Mk("h1", "")                       \* "# Title"
Text == Mk("text", "")                   \* a prose line
Todo == Mk("todo", "")                   \* "<!-- TODO: Add content -->"
H2(title) == Mk("h2", title)             \* "## <title>"
Kv(key, val) == Mk(key, val)             \* "<key>: <val>" (frontmatter)
RefLink(stem) == Mk("reflink", stem)     \* "- [.. Reference](<stem>.ref.md) -- quick-lookup version"
SeeAlso(stem) == Mk("seealso", stem)     \* "**See also:** [..](<stem>.md)"
SeeAlsoText == Mk("seealsotext", "")     \* "See also the glossary." (no link)
Mention(stem) == Mk("mention", stem)     \* "Moved from <stem>.md." (no link)
ExtLink == Mk("ext", "")                 \* "- [Docs](https://example.com)"

FmKeys == {"sources", "last_validated", "relevance", "depth"}

StartsWithH2(line) == line.k = "h2"
StartsWithH1(line) == line.k = "h1"
StripIsEmpty(line) == line.k = "blank"
StripIsDelim(line) == line.k = "delim"

\* case-insensitive substring match of a canonical section name in a heading
TitleContains(title, section) == title = section

_WORKING_SECTIONS ==
    <<"Why This Matters", "In Practice", "Key Guidance", "Watch Out For", "Go Deeper">>

_OVERVIEW_SECTIONS == <<"What This Covers", "How It's Organized">>

(***************************************************************************)
(* validators.py: shared helpers                                           *)
(***************************************************************************)
DelimiterIndices(lines) == {i \in 0..(Len(lines) - 1) : StripIsDelim(At(lines, i))}

\* variant: one delimiter is enough, the frontmatter then runs to the end
parse_frontmatter_one_delimiter(lines) ==
    LET ds == DelimiterIndices(lines)
    IN IF Cardinality(ds) < 1 THEN <<>>
       ELSE LET d0 == SetMin(ds)
                d1 == IF ds = {d0} THEN Len(lines) ELSE SetMin(ds \ {d0})
                idx(key) == {i \in (d0 + 1)..(d1 - 1) : At(lines, i).k = key}
                keys == {key \in FmKeys : idx(key) # {}}
            IN [key \in keys |-> At(lines, SetMax(idx(key))).a]

\* the dict of key: value pairs between the first two --- lines, {} if fewer
parse_frontmatter(lines) ==
    LET ds == DelimiterIndices(lines)
    IN IF Cardinality(ds) < 2 THEN <<>>
       ELSE LET d0 == SetMin(ds)
                d1 == SetMin(ds \ {d0})
                idx(key) == {i \in (d0 + 1)..(d1 - 1) : At(lines, i).k = key}
                keys == {key \in FmKeys : idx(key) # {}}
            IN [key \in keys |-> At(lines, SetMax(idx(key))).a]

FmGet(fm, key) == IF key \in DOMAIN fm THEN fm[key] ELSE ""

_body_without_frontmatter(lines) ==
    LET ds == DelimiterIndices(lines)
    IN IF Cardinality(ds) < 2 THEN lines
       ELSE LET d1 == SetMin(ds \ {SetMin(ds)})
            IN SubSeq(lines, d1 + 2, Len(lines))

\* index (0-based) of the first "## " line whose title contains heading, or None
FirstHeading(lines, heading) ==
    LET hs == {i \in 0..(Len(lines) - 1) :
                  StartsWithH2(At(lines, i)) /\ TitleContains(At(lines, i).a, heading)}
    IN IF hs = {} THEN None ELSE SetMin(hs)

\* the lines between "## <heading>" and the next "## " (or EOF); none if absent
_extract_section(body, heading) ==
    LET h == FirstHeading(body, heading)
    IN IF h = None THEN [none |-> TRUE, lines |-> <<>>]
       ELSE LET nxt == {j \in (h + 1)..(Len(body) - 1) : StartsWithH2(At(body, j))}
                stop == IF nxt = {} THEN Len(body) ELSE SetMin(nxt)
            IN [none |-> FALSE, lines |-> SubSeq(body, h + 2, stop)]

CanonicalOrder(depth) ==
    IF depth = "working" THEN _WORKING_SECTIONS
    ELSE IF depth = "overview" THEN _OVERVIEW_SECTIONS
    ELSE <<>>

Headings(lines) == {At(lines, i).a : i \in {j \in 0..(Len(lines) - 1) : StartsWithH2(At(lines, j))}}

Issue(file, kind, arg, severity) ==
    [file |-> file, kind |-> kind, arg |-> arg, severity |-> severity]

\* "Missing required section: <arg>" for each expected section without a heading
check_section_completeness(path, lines) ==
    LET expected == CanonicalOrder(FmGet(parse_frontmatter(lines), "depth"))
        missing(i) == \A t \in Headings(lines) : ~TitleContains(t, expected[i])
        F[i \in 0..Len(expected)] ==
            IF i = 0 THEN <<>>
            ELSE IF missing(i)
                 THEN Append(F[i - 1], Issue(path, "missing_section", expected[i], "warn"))
                 ELSE F[i - 1]
    IN F[Len(expected)]

(***************************************************************************)
(* Issue messages: the substring tests the fixers and the orchestrator     *)
(* apply to a message, by the text each validator writes.                  *)
(*   missing_section    "Missing required section: <arg>"                  *)
(*   go_deeper_ref      "Go Deeper section missing link to companion       *)
(*                       <arg>.ref.md"                                     *)
(*   go_deeper_ext      "Go Deeper section missing external link"          *)
(*   ref_no_see_also    "Reference file missing 'See also' section"        *)
(*   see_also_companion "See also section missing link to companion        *)
(*                       <arg>.md"                                         *)
(*   plan_checked_missing  "Plan item '<arg>' is checked but file not      *)
(*                          found: .."                                     *)
(*   plan_should_check  "Plan item '<arg>' should be checked off .."       *)
(*   plan_not_in_plan   "Topic on disk not in curation plan: .."           *)
(***************************************************************************)
MsgHasMissingSection(i) == i.kind = "missing_section"

MsgHasGoDeeper(i) ==
    \/ i.kind \in {"go_deeper_ref", "go_deeper_ext"}
    \/ i.kind = "missing_section" /\ i.arg = "Go Deeper"

MsgHasRefMd(i) == i.kind = "go_deeper_ref"

MsgHasSeeAlso(i) == i.kind \in {"ref_no_see_also", "see_also_companion"}

MsgHasShouldBeCheckedOff(i) == i.kind = "plan_should_check"

SelectSeq2(s, Test(_)) ==
    LET F[i \in 0..Len(s)] ==
            IF i = 0 THEN <<>>
            ELSE IF Test(s[i]) THEN Append(F[i - 1], s[i]) ELSE F[i - 1]
    IN F[Len(s)]

(***************************************************************************)
(* auto_fix.py: fix_missing_sections                                       *)
(***************************************************************************)
Stub(section) == <<H2(section), Blank, Todo, Blank>>

\* section_positions: for each canonical section the index of the last "## "
\* line matched to it (a heading is matched to the first canonical section
\* its title contains), None if there is none
SectionPositions(lines, order) ==
    LET matched(i) ==
            LET cs == {c \in 1..Len(order) : TitleContains(At(lines, i).a, order[c])}
            IN IF StartsWithH2(At(lines, i)) /\ cs # {} THEN order[SetMin(cs)] ELSE ""
        at(section) == {i \in 0..(Len(lines) - 1) : matched(i) = section}
    IN [section \in Range(order) |->
            IF at(section) = {} THEN None ELSE SetMax(at(section))]

\* insert_after: position + offset of the last earlier canonical section known
InsertAfter(order, section, pos, offset) ==
    LET prev == {j \in 1..(IndexOf(order, section) - 1) : pos[order[j]] # None}
    IN IF prev = {} THEN None ELSE pos[order[SetMax(prev)]] + offset

\* insert_at when an earlier section exists: the next "## " after it, or EOF
InsertAtAfter(lines, insert_after) ==
    LET nxt == {j \in (insert_after + 1)..(Len(lines) - 1) : StartsWithH2(At(lines, j))}
    IN IF nxt = {} THEN Len(lines) ELSE SetMin(nxt)

\* insert_at when none exists: after the first blank line after the H1,
\* else right after the H1, else EOF
InsertAtTop(lines) ==
    LET h1s == {j \in 0..(Len(lines) - 1) : StartsWithH1(At(lines, j))}
    IN IF h1s = {} THEN Len(lines)
       ELSE LET j == SetMin(h1s)
                blanks == {k \in (j + 1)..(Len(lines) - 1) : StripIsEmpty(At(lines, k))}
            IN IF blanks = {} THEN j + 1 ELSE SetMin(blanks) + 1

Action(file, action, arg) == [file |-> file, action |-> action, arg |-> arg]

\* variant: the stub overwrites the line at the insertion point
FixSectionStepOverwriting(st, order, section, name) ==
    LET insert_after == InsertAfter(order, section, st.pos, st.offset)
        insert_at == IF insert_after # None
                     THEN InsertAtAfter(st.lines, insert_after)
                     ELSE InsertAtTop(st.lines)
        offset == st.offset + Len(Stub(section))
        moved == [s \in DOMAIN st.pos |->
                    IF st.pos[s] # None /\ st.pos[s] >= insert_at - offset + Len(Stub(section))
                    THEN st.pos[s] + Len(Stub(section))
                    ELSE st.pos[s]]
    IN [lines |-> SubSeq(st.lines, 1, insert_at) \o Stub(section)
                    \o SubSeq(st.lines, insert_at + 2, Len(st.lines)),
        pos |-> [moved EXCEPT ![section] = insert_at],
        offset |-> offset,
        actions |-> Append(st.actions, Action(name, "inserted_stub_section", section))]

\* one iteration of the loop over canonical_order for a missing section
FixSectionStep(st, order, section, name) ==
    LET insert_after == InsertAfter(order, section, st.pos, st.offset)
        insert_at == IF insert_after # None
                     THEN InsertAtAfter(st.lines, insert_after)
                     ELSE InsertAtTop(st.lines)
        offset == st.offset + Len(Stub(section))
        moved == [s \in DOMAIN st.pos |->
                    IF st.pos[s] # None /\ st.pos[s] >= insert_at - offset + Len(Stub(section))
                    THEN st.pos[s] + Len(Stub(section))
                    ELSE st.pos[s]]
    IN [lines |-> InsertAt(st.lines, insert_at, Stub(section)),
        pos |-> [moved EXCEPT ![section] = insert_at],
        offset |-> offset,
        actions |-> Append(st.actions, Action(name, "inserted_stub_section", section))]

RECURSIVE FixSectionLoop(_, _, _, _, _)
FixSectionLoop(st, order, i, missing_names, name) ==
    IF i > Len(order) THEN st
    ELSE FixSectionLoop(
            IF order[i] \in missing_names
            THEN FixSectionStep(st, order, order[i], name)
            ELSE st,
            order, i + 1, missing_names, name)

\* variant: the issues of every file are taken as relevant
fix_missing_sections_any_file(name, lines, issues) ==
    LET relevant == SelectSeq2(issues, MsgHasMissingSection)
        order == CanonicalOrder(FmGet(parse_frontmatter(lines), "depth"))
        missing_names == {relevant[i].arg : i \in 1..Len(relevant)}
        st0 == [lines |-> lines, pos |-> SectionPositions(lines, order),
                offset |-> 0, actions |-> <<>>]
    IN IF relevant = <<>> \/ order = <<>> THEN [lines |-> lines, actions |-> <<>>]
       ELSE LET st == FixSectionLoop(st0, order, 1, missing_names, name)
            IN [lines |-> st.lines, actions |-> st.actions]

\* returns the new content of the file and the actions
fix_missing_sections(name, lines, issues) ==
    LET relevant == SelectSeq2(issues, LAMBDA i : i.file = name /\ MsgHasMissingSection(i))
        order == CanonicalOrder(FmGet(parse_frontmatter(lines), "depth"))
        missing_names == {relevant[i].arg : i \in 1..Len(relevant)}
        st0 == [lines |-> lines, pos |-> SectionPositions(lines, order),
                offset |-> 0, actions |-> <<>>]
    IN IF relevant = <<>> \/ order = <<>> THEN [lines |-> lines, actions |-> <<>>]
       ELSE LET st == FixSectionLoop(st0, order, 1, missing_names, name)
            IN [lines |-> st.lines, actions |-> st.actions]

(***************************************************************************)
(* Paths.  A document path docs/<area>/<stem>.md or docs/<area>/<stem>.ref.md*)
(* is a record [area, stem, ref]; area "" is a file directly under docs/.   *)
(***************************************************************************)
P(area, stem, ref) == [area |-> area, stem |-> stem, ref |-> ref]

PlanPath == P(".dewey", "curation-plan", FALSE)

\* all document paths of the model, in sorted(rglob("*.md")) order
PathSeq ==
    <<P("a1", "overview", FALSE), P("a1", "t", FALSE), P("a1", "t", TRUE),
      P("a2", "overview", FALSE), P("a2", "t", FALSE)>>

Paths == Range(PathSeq)

EndsWithRefMd(path) == path.ref
IsOverviewMd(path) == path.stem = "overview" /\ ~path.ref

\* _discover_md_files: the documents on disk, sorted
_discover_md_files(fs) == SelectSeq2(PathSeq, LAMBDA p : p \in DOMAIN fs)

(***************************************************************************)
(* validators.py: check_go_deeper_links, check_ref_see_also                *)
(***************************************************************************)
LineHasRefName(line, stem) == line.k = "reflink" /\ line.a = stem
LineHasHttp(line) == line.k = "ext"
LineHasSeeAlso(line) == line.k \in {"seealso", "seealsotext"}

\* the characters of the file stems the documents mention
StemChars(stem) ==
    CASE stem = "t" -> <<"t">>
      [] stem = "not" -> <<"n", "o", "t">>
      [] stem = "other" -> <<"o", "t", "h", "e", "r">>
      [] OTHER -> <<stem>>

EndsWithChars(x, y) == Len(y) <= Len(x) /\ SubSeq(x, Len(x) - Len(y) + 1, Len(x)) = y

\* "<stem>.md" in line: the text before the only ".md" of the line ends
\* with <stem>
LineHasMdName(line, stem) ==
    \/ /\ line.k \in {"seealso", "mention"}
       /\ EndsWithChars(StemChars(line.a), StemChars(stem))
    \/ /\ line.k = "reflink"
       /\ EndsWithChars(StemChars(line.a) \o <<".", "r", "e", "f">>, StemChars(stem))

check_go_deeper_links(path, lines) ==
    IF EndsWithRefMd(path) THEN <<>>
    ELSE IF FmGet(parse_frontmatter(lines), "depth") # "working" THEN <<>>
    ELSE LET section == _extract_section(_body_without_frontmatter(lines), "Go Deeper")
         IN IF section.none THEN <<>>
            ELSE (IF \E l \in Range(section.lines) : LineHasRefName(l, path.stem)
                  THEN <<>>
                  ELSE <<Issue(path, "go_deeper_ref", path.stem, "warn")>>)
                 \o
                 (IF \E l \in Range(section.lines) : LineHasHttp(l)
                  THEN <<>>
                  ELSE <<Issue(path, "go_deeper_ext", "", "warn")>>)

check_ref_see_also(path, lines) ==
    IF ~EndsWithRefMd(path) THEN <<>>
    ELSE LET body == _body_without_frontmatter(lines)
         IN IF ~\E l \in Range(body) : LineHasSeeAlso(l)
            THEN <<Issue(path, "ref_no_see_also", "", "warn")>>
            ELSE IF ~\E l \in Range(body) : LineHasMdName(l, path.stem)
                 THEN <<Issue(path, "see_also_companion", path.stem, "warn")>>
                 ELSE <<>>

(***************************************************************************)
(* auto_fix.py: fix_missing_cross_links                                    *)
(***************************************************************************)
\* text.rstrip(): the lines without the trailing blank ones ([""] if all blank)
RECURSIVE RStrip(_)
RStrip(lines) ==
    IF Len(lines) <= 1 THEN (IF lines = <<>> \/ StripIsEmpty(lines[1]) THEN <<Blank>> ELSE lines)
    ELSE IF StripIsEmpty(lines[Len(lines)]) THEN RStrip(SubSeq(lines, 1, Len(lines) - 1))
    ELSE lines

\* the first "## " line with "go deeper" in it, searched in the whole text
GoDeeperHeadingLine(lines) == FirstHeading(lines, "Go Deeper")

\* variant: the link is written whether or not the companion is on disk
fix_missing_cross_links_unchecked(path, lines, issues, companion_exists) ==
    LET relevant == SelectSeq2(issues,
                        LAMBDA i : i.file = path /\ (MsgHasSeeAlso(i) \/ MsgHasGoDeeper(i)))
        see_also_issues == SelectSeq2(relevant, MsgHasSeeAlso)
        go_deeper_issues == SelectSeq2(relevant, LAMBDA i : MsgHasGoDeeper(i) /\ MsgHasRefMd(i))
        unchanged == [lines |-> lines, actions |-> <<>>]
    IN IF relevant = <<>> THEN unchanged
       ELSE IF EndsWithRefMd(path)
       THEN IF see_also_issues # <<>>
            THEN [lines |-> RStrip(lines) \o <<Blank, SeeAlso(path.stem), Blank>>,
                  actions |-> <<Action(path, "appended_see_also", path.stem)>>]
            ELSE unchanged
       ELSE IF go_deeper_issues # <<>>
                /\ ~_extract_section(_body_without_frontmatter(lines), "Go Deeper").none
                /\ GoDeeperHeadingLine(lines) # None
            THEN [lines |-> InsertAt(lines, GoDeeperHeadingLine(lines) + 1,
                                     <<RefLink(path.stem)>>),
                  actions |-> <<Action(path, "inserted_ref_link", path.stem)>>]
            ELSE unchanged

\* companion_exists: whether the companion file is on disk
fix_missing_cross_links(path, lines, issues, companion_exists) ==
    LET relevant == SelectSeq2(issues,
                        LAMBDA i : i.file = path /\ (MsgHasSeeAlso(i) \/ MsgHasGoDeeper(i)))
        see_also_issues == SelectSeq2(relevant, MsgHasSeeAlso)
        go_deeper_issues == SelectSeq2(relevant, LAMBDA i : MsgHasGoDeeper(i) /\ MsgHasRefMd(i))
        unchanged == [lines |-> lines, actions |-> <<>>]
    IN IF relevant = <<>> THEN unchanged
       ELSE IF EndsWithRefMd(path)
       THEN IF see_also_issues # <<>> /\ companion_exists
            THEN [lines |-> RStrip(lines) \o <<Blank, SeeAlso(path.stem), Blank>>,
                  actions |-> <<Action(path, "appended_see_also", path.stem)>>]
            ELSE unchanged
       ELSE IF go_deeper_issues # <<>> /\ companion_exists
                /\ ~_extract_section(_body_without_frontmatter(lines), "Go Deeper").none
                /\ GoDeeperHeadingLine(lines) # None
            THEN [lines |-> InsertAt(lines, GoDeeperHeadingLine(lines) + 1,
                                     <<RefLink(path.stem)>>),
                  actions |-> <<Action(path, "inserted_ref_link", path.stem)>>]
            ELSE unchanged

Companion(path) == P(path.area, path.stem, ~path.ref)

(***************************************************************************)
(* The curation plan.  A plan line is a record [k, a, c, sp]:               *)
(*   k = "h2":   "## <a>"             (an area heading)                    *)
(*   k = "item": "-<sp spaces>[<c>] <a> -- core"  (c: checked)             *)
(*   k = "text": any other line                                            *)
(***************************************************************************)
PlanH2(area) == [k |-> "h2", a |-> area, c |-> FALSE, sp |-> 1]
PlanItem(name, checked, sp) == [k |-> "item", a |-> name, c |-> checked, sp |-> sp]
PlanText == [k |-> "text", a |-> "", c |-> FALSE, sp |-> 1]

ItemNames == {"T", "T Plus"}

\* templates.py _slugify on the item names of the model
_slugify(name) ==
    CASE name = "T" -> "t"
      [] name = "T Plus" -> "t-plus"
      [] OTHER -> name

\* whether string n is a prefix of string m, on the item names of the model
NamePrefix(n, m) == n = m \/ (n = "T" /\ m = "T Plus")

\* cross_validators.py _parse_curation_plan: [area, name, checked] per item line
\* that follows an area heading
_parse_curation_plan(lines) ==
    LET area(i) ==
            LET hs == {j \in 1..i : lines[j].k = "h2"}
            IN IF hs = {} THEN "" ELSE lines[SetMax(hs)].a
        hasArea(i) == \E j \in 1..i : lines[j].k = "h2"
        F[i \in 0..Len(lines)] ==
            IF i = 0 THEN <<>>
            ELSE IF lines[i].k = "item" /\ hasArea(i)
                 THEN Append(F[i - 1],
                        [area |-> area(i), name |-> lines[i].a, checked |-> lines[i].c])
                 ELSE F[i - 1]
    IN F[Len(lines)]

TopicExists(fs, area, name) == P(area, _slugify(name), FALSE) \in DOMAIN fs

\* _discover_areas_and_topics, flattened: the topic files on disk (no
\* overview.md, no .ref.md) of the area directories, sorted
TopicsOnDisk(fs) ==
    SelectSeq2(_discover_md_files(fs),
        LAMBDA p : p.area # "" /\ ~IsOverviewMd(p) /\ ~EndsWithRefMd(p))

\* variant: a plan without items is not skipped
check_curation_plan_sync_no_skip(pl, fs) ==
    LET items == IF pl.exists THEN _parse_curation_plan(pl.lines) ELSE <<>>
        plan_topics == {P(items[i].area, _slugify(items[i].name), FALSE) : i \in 1..Len(items)}
        itemIssue(item) ==
            IF item.checked /\ ~TopicExists(fs, item.area, item.name)
            THEN <<Issue(PlanPath, "plan_checked_missing", item.name, "warn")>>
            ELSE IF ~item.checked /\ TopicExists(fs, item.area, item.name)
            THEN <<Issue(PlanPath, "plan_should_check", item.name, "warn")>>
            ELSE <<>>
        F[i \in 0..Len(items)] ==
            IF i = 0 THEN <<>> ELSE F[i - 1] \o itemIssue(items[i])
        topics == TopicsOnDisk(fs)
        G[i \in 0..Len(topics)] ==
            IF i = 0 THEN <<>>
            ELSE IF topics[i] \notin plan_topics
                 THEN Append(G[i - 1], Issue(topics[i], "plan_not_in_plan", "", "warn"))
                 ELSE G[i - 1]
    IN F[Len(items)] \o G[Len(topics)]

check_curation_plan_sync(pl, fs) ==
    LET items == IF pl.exists THEN _parse_curation_plan(pl.lines) ELSE <<>>
        plan_topics == {P(items[i].area, _slugify(items[i].name), FALSE) : i \in 1..Len(items)}
        itemIssue(item) ==
            IF item.checked /\ ~TopicExists(fs, item.area, item.name)
            THEN <<Issue(PlanPath, "plan_checked_missing", item.name, "warn")>>
            ELSE IF ~item.checked /\ TopicExists(fs, item.area, item.name)
            THEN <<Issue(PlanPath, "plan_should_check", item.name, "warn")>>
            ELSE <<>>
        F[i \in 0..Len(items)] ==
            IF i = 0 THEN <<>> ELSE F[i - 1] \o itemIssue(items[i])
        topics == TopicsOnDisk(fs)
        G[i \in 0..Len(topics)] ==
            IF i = 0 THEN <<>>
            ELSE IF topics[i] \notin plan_topics
                 THEN Append(G[i - 1], Issue(topics[i], "plan_not_in_plan", "", "warn"))
                 ELSE G[i - 1]
    IN IF items = <<>> THEN <<>> ELSE F[Len(items)] \o G[Len(topics)]

(***************************************************************************)
(* auto_fix.py: fix_curation_plan_checkmarks                               *)
(***************************************************************************)
\* re.match(r"^-\s+\[ \]\s+" + re.escape(name), line)
LineMatchesUnchecked(line, name) ==
    line.k = "item" /\ ~line.c /\ NamePrefix(name, line.a)

\* line.replace("- [ ]", "- [x]", 1): only a dash followed by one space matches
ReplaceCheckbox(line) == IF line.sp = 1 THEN [line EXCEPT !.c = TRUE] ELSE line

\* one iteration of the loop over the parsed items
FixPlanStep(st, item, fs) ==
    IF item.checked \/ ~TopicExists(fs, item.area, item.name) THEN st
    ELSE LET ms == {i \in 1..Len(st.lines) : LineMatchesUnchecked(st.lines[i], item.name)}
         IN IF ms = {} THEN st
            ELSE [lines |-> [st.lines EXCEPT ![SetMin(ms)] = ReplaceCheckbox(@)],
                  actions |-> Append(st.actions,
                                Action(PlanPath, "checked_plan_item", item.name))]

\* returns the plan's new lines and the actions
fix_curation_plan_checkmarks(pl, fs) ==
    LET items == IF pl.exists THEN _parse_curation_plan(pl.lines) ELSE <<>>
        F[i \in 0..Len(items)] ==
            IF i = 0 THEN [lines |-> pl.lines, actions |-> <<>>]
            ELSE FixPlanStep(F[i - 1], items[i], fs)
    IN F[Len(items)]

(***************************************************************************)
(* cross_validators.py: check_link_graph.  The markdown links of a line    *)
(* are given by its kind: "seealso" links <a>.md, "reflink" links          *)
(* <a>.ref.md (both relative to the file's directory), "ext" an http URL.  *)
(***************************************************************************)
\* sorted(knowledge_dir.rglob("*.md")), index.md included
LinkPathSeq ==
    <<P("a1", "index", FALSE), P("a1", "overview", FALSE), P("a1", "t", FALSE),
      P("a1", "t", TRUE)>>

IsIndexMd(path) == path.stem = "index" /\ ~path.ref

\* the relative link targets of a line that are no URL
LinkTargets(line) ==
    IF line.k = "seealso" THEN {[stem |-> line.a, ref |-> FALSE]}
    ELSE IF line.k = "reflink" THEN {[stem |-> line.a, ref |-> TRUE]}
    ELSE {}

\* (md_file.parent / target_path).resolve()
Resolve(md_file, target) == P(md_file.area, target.stem, target.ref)

\* target -> set of sources, for the targets that exist on disk
LinkedFrom(fs, all_files) ==
    LET targets(f) == {Resolve(f, t) : t \in UNION {LinkTargets(l) : l \in Range(fs[f])}}
        linked == {r \in UNION {targets(f) : f \in Range(all_files)} : r \in DOMAIN fs}
    IN [r \in linked |-> {f \in Range(all_files) : r \in targets(f)}]

\* variant: no entry point is skipped
OrphanPassAllFiles(all_files, linked_from) ==
    LET orphans == SelectSeq2(all_files, LAMBDA f : f \notin DOMAIN linked_from)
    IN [i \in 1..Len(orphans) |-> Issue(orphans[i], "orphaned", "", "warn")]

\* "Orphaned file -- not linked from any other file" for each file that is
\* no entry point (overview.md, index.md) and no key of linked_from
OrphanPass(all_files, linked_from) ==
    LET orphans == SelectSeq2(all_files,
                       LAMBDA f : ~(IsOverviewMd(f) \/ IsIndexMd(f))
                                      /\ f \notin DOMAIN linked_from)
    IN [i \in 1..Len(orphans) |-> Issue(orphans[i], "orphaned", "", "warn")]

\* the lines of the first "## How It's Organized" section of the overview body
OrganizedSection(body) ==
    LET F[i \in 0..Len(body)] ==
            IF i = 0 THEN [capturing |-> FALSE, done |-> FALSE, lines |-> <<>>]
            ELSE LET st == F[i - 1]
                 IN IF st.done THEN st
                    ELSE IF StartsWithH2(body[i])
                    THEN IF st.capturing THEN [st EXCEPT !.done = TRUE]
                         ELSE IF TitleContains(body[i].a, "How It's Organized")
                              THEN [st EXCEPT !.capturing = TRUE]
                              ELSE st
                    ELSE IF st.capturing THEN [st EXCEPT !.lines = Append(@, body[i])]
                    ELSE st
    IN F[Len(body)].lines

\* "Topic '<name>' not listed in overview's How It's Organized section"
OverviewCompleteness(fs) ==
    LET overview == P("a1", "overview", FALSE)
        topic_files == SelectSeq2(LinkPathSeq,
                           LAMBDA p : p \in DOMAIN fs /\ ~IsOverviewMd(p) /\ ~p.ref /\ ~IsIndexMd(p))
        section_text == OrganizedSection(_body_without_frontmatter(fs[overview]))
        linked_files == UNION {LinkTargets(l) : l \in Range(section_text)}
        unlisted == SelectSeq2(topic_files,
                        LAMBDA p : [stem |-> p.stem, ref |-> FALSE] \notin linked_files)
    IN IF overview \notin DOMAIN fs \/ topic_files = <<>> \/ section_text = <<>> THEN <<>>
       ELSE [i \in 1..Len(unlisted) |-> Issue(overview, "topic_unlisted", unlisted[i].stem, "warn")]

check_link_graph(fs) ==
    LET all_files == SelectSeq2(LinkPathSeq, LAMBDA p : p \in DOMAIN fs /\ ~IsIndexMd(p))
    IN IF all_files = <<>> THEN <<>>
       ELSE OrphanPass(all_files, LinkedFrom(fs, all_files)) \o OverviewCompleteness(fs)

(***************************************************************************)
(* init/scripts/scaffold.py: merge_managed_section.  A text is a sequence  *)
(* of tokens: the two markers, a newline, and runs of other characters     *)
(* ("x" in a user's file, "s" and "s2" in rendered sections).              *)
(***************************************************************************)
MARKER_BEGIN == "<!-- dewey:kb:begin -->"
MARKER_END == "<!-- dewey:kb:end -->"
NL == "\n"

\* text.rstrip("\n")
RStripNL(text) ==
    LET keep == {i \in 1..Len(text) : text[i] # NL}
    IN IF keep = {} THEN <<>> ELSE SubSeq(text, 1, SetMax(keep))

\* marker in text
Contains(text, marker) == \E i \in 1..Len(text) : text[i] = marker

\* existing_content.index(MARKER_END) raises ValueError
MergeRaises(existing_content) ==
    /\ existing_content.exists
    /\ Contains(existing_content.text, MARKER_BEGIN)
    /\ ~Contains(existing_content.text, MARKER_END)

merge_managed_section(existing_content, managed_section, full_template) ==
    IF ~existing_content.exists THEN full_template
    ELSE IF ~Contains(existing_content.text, MARKER_BEGIN)
    THEN RStripNL(existing_content.text)
            \o <<NL, NL, MARKER_BEGIN, NL>> \o managed_section \o <<NL, MARKER_END, NL>>
    ELSE LET begin_idx == IndexOf(existing_content.text, MARKER_BEGIN)
             end_idx == IndexOf(existing_content.text, MARKER_END)
         IN SubSeq(existing_content.text, 1, begin_idx - 1)
               \o <<MARKER_BEGIN, NL>> \o managed_section \o <<NL, MARKER_END>>
               \o SubSeq(existing_content.text, end_idx + 1, Len(existing_content.text))

\* templates.py render_agents_md: the user-owned heading, then the managed
\* section between the markers
render_agents_md(section) ==
    <<"x", NL, MARKER_BEGIN, NL>> \o section \o <<NL, MARKER_END, NL>>

(***************************************************************************)
(* history.py: the history log .dewey/history/health-log.jsonl, one line   *)
(* per snapshot.  A line is a record [tier1, tier2, file_list]; the         *)
(* timestamp is not carried.  A summary carries the number of documents;   *)
(* NoSummary is null.                                                      *)
(***************************************************************************)
NoSummary == [null |-> TRUE]

Tier1Summary(md_files) == [total_files |-> Len(md_files)]

Tier2Summary(md_files) == [total_files_scanned |-> Len(md_files)]

Snapshot(tier1_summary, tier2_summary, file_list) ==
    [tier1 |-> tier1_summary, tier2 |-> tier2_summary, file_list |-> file_list]

\* variant: the log file opened with "w" instead of "a"
record_snapshot_truncating(log, tier1_summary, tier2_summary, file_list) ==
    <<Snapshot(tier1_summary, tier2_summary, file_list)>>

\* one line appended to the log
record_snapshot(log, tier1_summary, tier2_summary, file_list) ==
    Append(log, Snapshot(tier1_summary, tier2_summary, file_list))

\* entries[-limit:]
read_history(log, limit) ==
    IF Len(log) <= limit THEN log ELSE SubSeq(log, Len(log) - limit + 1, Len(log))

\* variant: every path that differs between the last snapshot and now
check_inventory_regression_any_change(log, current_files) ==
    LET history == read_history(log, 1)
    IN IF history = <<>> THEN <<>>
       ELSE LET last_files == Range(history[Len(history)].file_list)
                current_set == Range(current_files)
                missing == SelectSeq2(PathSeq,
                               LAMBDA p : p \in (last_files \ current_set)
                                                   \cup (current_set \ last_files))
            IN [i \in 1..Len(missing) |-> Issue(missing[i], "inventory_missing", "", "warn")]

\* "File was present in last health check but is now missing: <file>" for
\* each path of the last snapshot's file_list that is not in current_files
check_inventory_regression(log, current_files) ==
    LET history == read_history(log, 1)
    IN IF history = <<>> THEN <<>>
       ELSE LET last_files == Range(history[Len(history)].file_list)
                current_set == Range(current_files)
                missing == SelectSeq2(PathSeq, LAMBDA p : p \in last_files \ current_set)
            IN [i \in 1..Len(missing) |-> Issue(missing[i], "inventory_missing", "", "warn")]

(***************************************************************************)
(* check_kb.py: run_health_check                                           *)
(***************************************************************************)
\* the per-file validators whose findings the fixers read, in call order
PerFileIssues(path, lines) ==
    check_section_completeness(path, lines)
        \o check_go_deeper_links(path, lines)
        \o check_ref_see_also(path, lines)

AllIssues(fs, pl) ==
    LET md_files == _discover_md_files(fs)
        F[i \in 0..Len(md_files)] ==
            IF i = 0 THEN <<>>
            ELSE F[i - 1] \o PerFileIssues(md_files[i], fs[md_files[i]])
    IN F[Len(md_files)] \o check_curation_plan_sync(pl, fs)

\* validators.py check_frontmatter: "Missing frontmatter", else one
\* "Missing required frontmatter field" per absent or empty required field
\* and "Invalid depth" for a depth outside _VALID_DEPTHS; all fail
_VALID_DEPTHS == {"overview", "working", "reference"}

RequiredFields == <<"sources", "last_validated", "relevance", "depth">>

check_frontmatter(path, lines) ==
    LET fm == parse_frontmatter(lines)
        absent == SelectSeq2(RequiredFields, LAMBDA field : FmGet(fm, field) = "")
        depth == FmGet(fm, "depth")
    IN IF DOMAIN fm = {} THEN <<Issue(path, "missing_frontmatter", "", "fail")>>
       ELSE [i \in 1..Len(absent) |-> Issue(path, "missing_field", absent[i], "fail")]
            \o (IF depth # "" /\ depth \notin _VALID_DEPTHS
                THEN <<Issue(path, "invalid_depth", depth, "fail")>> ELSE <<>>)

\* the directory docs/<area>, as check_coverage names it in an issue
AreaDir(area) == [area |-> area, stem |-> "", ref |-> FALSE]

AreaSeq == <<"a1", "a2">>

\* validators.py check_coverage: per area directory a fail when overview.md
\* is absent, then a warn per topic without its .ref.md companion
check_coverage(fs) ==
    LET of(area) ==
            LET topics == SelectSeq2(PathSeq,
                              LAMBDA p : /\ p \in DOMAIN fs
                                         /\ p.area = area
                                         /\ ~IsOverviewMd(p)
                                         /\ ~EndsWithRefMd(p)
                                         /\ P(area, p.stem, TRUE) \notin DOMAIN fs)
            IN (IF P(area, "overview", FALSE) \notin DOMAIN fs
                THEN <<Issue(AreaDir(area), "area_missing_overview", area, "fail")>>
                ELSE <<>>)
               \o [i \in 1..Len(topics) |->
                      Issue(topics[i], "missing_companion", topics[i].stem, "warn")]
        F[i \in 0..Len(AreaSeq)] ==
            IF i = 0 THEN <<>>
            ELSE IF \E p \in DOMAIN fs : p.area = AreaSeq[i]
            THEN F[i - 1] \o of(AreaSeq[i])
            ELSE F[i - 1]
    IN F[Len(AreaSeq)]

\* result["issues"]: all_issues with the findings the fix pass does not
\* read, in call order: per file check_frontmatter before the fixable
\* findings, then check_coverage, check_inventory_regression and
\* check_curation_plan_sync
ReportIssues(fs, pl, log) ==
    LET md_files == _discover_md_files(fs)
        F[i \in 0..Len(md_files)] ==
            IF i = 0 THEN <<>>
            ELSE F[i - 1] \o check_frontmatter(md_files[i], fs[md_files[i]])
                          \o PerFileIssues(md_files[i], fs[md_files[i]])
    IN F[Len(md_files)]
         \o check_coverage(fs)
         \o check_inventory_regression(log, md_files)
         \o check_curation_plan_sync(pl, fs)

\* result["summary"]
Summary(all_issues, md_files) ==
    LET files_with_fails ==
            {all_issues[i].file : i \in {j \in 1..Len(all_issues) :
                                            all_issues[j].severity = "fail"}}
        count(sev) == Cardinality({i \in 1..Len(all_issues) : all_issues[i].severity = sev})
    IN [total_files |-> Len(md_files),
        fail_count |-> count("fail"),
        warn_count |-> count("warn"),
        pass_count |-> Len(md_files) - Cardinality(files_with_fails)]

\* the dry_run branch for one issue of a file
WouldFix(md_file, issue) ==
    IF MsgHasMissingSection(issue)
    THEN <<Action(md_file, "would_insert_stub_section", issue.arg)>>
    ELSE IF MsgHasSeeAlso(issue) \/ (MsgHasGoDeeper(issue) /\ MsgHasRefMd(issue))
    THEN <<Action(md_file, "would_insert_cross_link", issue.arg)>>
    ELSE <<>>

\* the fix branch for one file: fix_missing_sections, then
\* fix_missing_cross_links on the file it has written, with the same issues
ApplyFixes(st, md_file, file_issues) ==
    CHOOSE next \in
        {LET r2 == fix_missing_cross_links(md_file, r1.lines, file_issues,
                                           Companion(md_file) \in DOMAIN st.files)
         IN [st EXCEPT !.files = [@ EXCEPT ![md_file] = r2.lines],
                       !.fixes = @ \o r1.actions \o r2.actions]
         : r1 \in {fix_missing_sections(md_file, st.files[md_file], file_issues)}} : TRUE

\* variant: the fix branch taken whatever dry_run says
FixFileIgnoringDryRun(st, md_file, all_issues, dry_run) ==
    CHOOSE next \in
        {IF file_issues = <<>> THEN s ELSE ApplyFixes(s, md_file, file_issues)
         : s \in {st},
           file_issues \in {SelectSeq2(all_issues, LAMBDA i : i.file = md_file)}} : TRUE

\* the body of the loop over md_files in the auto-fix pass (st and file_issues
\* are bound once, as the code's local variables are)
FixFile(st, md_file, all_issues, dry_run) ==
    CHOOSE next \in
        {LET W[i \in 0..Len(file_issues)] ==
                 IF i = 0 THEN <<>> ELSE W[i - 1] \o WouldFix(md_file, file_issues[i])
         IN IF file_issues = <<>> THEN s
            ELSE IF dry_run
            THEN [s EXCEPT !.fixes = @ \o W[Len(file_issues)]]
            ELSE ApplyFixes(s, md_file, file_issues)
         : s \in {st},
           file_issues \in {SelectSeq2(all_issues, LAMBDA i : i.file = md_file)}} : TRUE

\* returns the documents and the plan after the run, and result["fixes"]
\* (all_issues is bound once: the validators run before the auto-fix pass)
run_health_check(fs, pl, fix, dry_run) ==
    CHOOSE result \in
        {LET md_files == _discover_md_files(fs)
             F[i \in 0..Len(md_files)] ==
                 IF i = 0 THEN [files |-> fs, fixes |-> <<>>]
                 ELSE FixFile(F[i - 1], md_files[i], all_issues, dry_run)
             st == F[Len(md_files)]
             plan_issues == SelectSeq2(all_issues, MsgHasShouldBeCheckedOff)
             W[i \in 0..Len(plan_issues)] ==
                 IF i = 0 THEN <<>>
                 ELSE Append(W[i - 1],
                         Action(plan_issues[i].file, "would_check_plan_item",
                                plan_issues[i].arg))
             pf == fix_curation_plan_checkmarks(pl, fs)
         IN IF ~(fix \/ dry_run) THEN [files |-> fs, plan |-> pl, fixes |-> <<>>]
            ELSE IF dry_run
            THEN [files |-> st.files, plan |-> pl,
                  fixes |-> st.fixes \o W[Len(plan_issues)]]
            ELSE IF plan_issues # <<>>
            THEN [files |-> st.files, plan |-> [pl EXCEPT !.lines = pf.lines],
                  fixes |-> st.fixes \o pf.actions]
            ELSE [files |-> st.files, plan |-> pl, fixes |-> st.fixes]
         : all_issues \in {AllIssues(fs, pl)}} : TRUE

(***************************************************************************)
(* validators.py: check_freshness.  A last_validated value is "age<n>" (a   *)
(* valid date n days before today) or "invalid" (not an ISO date).         *)
(***************************************************************************)
MaxAgeDays == 90

AgeDays(v) ==
    CASE v = "age0" -> 0
      [] v = "age90" -> 90
      [] v = "age91" -> 91
      [] OTHER -> None

check_freshness(path, lines) ==
    LET last_validated == FmGet(parse_frontmatter(lines), "last_validated")
    IN IF last_validated = "" THEN <<>>
       ELSE IF AgeDays(last_validated) = None
       THEN <<Issue(path, "invalid_last_validated", last_validated, "warn")>>
       ELSE IF AgeDays(last_validated) > MaxAgeDays
       THEN <<Issue(path, "content_old", last_validated, "warn")>>
       ELSE <<>>

(***************************************************************************)
(* utilization.py: the log is a sequence of events [file, ts]; ts counts   *)
(* hours (the order of ISO timestamps is the order of the instants).       *)
(***************************************************************************)
HoursPerDay == 24

\* variant: first and last timestamp taken in log order, not by comparison
read_utilization_log_order(log) ==
    [fp \in {log[i].file : i \in 1..Len(log)} |->
        LET idx == {i \in 1..Len(log) : log[i].file = fp}
        IN [count |-> Cardinality(idx),
            first_referenced |-> log[SetMin(idx)].ts,
            last_referenced |-> log[SetMax(idx)].ts]]

\* the loop of read_utilization over the log lines
RECURSIVE ReadUtilizationFrom(_, _, _)
ReadUtilizationFrom(log, i, stats) ==
    IF i > Len(log) THEN stats
    ELSE LET fp == log[i].file
             ts == log[i].ts
         IN IF fp \notin DOMAIN stats
            THEN ReadUtilizationFrom(log, i + 1,
                    (fp :> [count |-> 1, first_referenced |-> ts, last_referenced |-> ts])
                        @@ stats)
            ELSE ReadUtilizationFrom(log, i + 1,
                    [stats EXCEPT ![fp] =
                        [count |-> @.count + 1,
                         first_referenced |-> IF ts < @.first_referenced
                                              THEN ts ELSE @.first_referenced,
                         last_referenced |-> IF ts > @.last_referenced
                                             THEN ts ELSE @.last_referenced]])

read_utilization(log) == ReadUtilizationFrom(log, 1, <<>>)

(***************************************************************************)
(* check_kb.py: generate_recommendations                                   *)
(***************************************************************************)
_LOW_UTIL_MIN_OVERVIEW_READS == 10

RECURSIVE SumCounts(_, _)
SumCounts(utilization, S) ==
    IF S = {} THEN 0
    ELSE LET q == CHOOSE q \in S : TRUE
         IN utilization[q].count + SumCounts(utilization, S \ {q})

TotalReads(utilization) == SumCounts(utilization, DOMAIN utilization)

\* (latest - earliest).days over all first/last timestamps
DaySpan(utilization) ==
    LET all_timestamps == {utilization[q].first_referenced : q \in DOMAIN utilization}
                            \cup {utilization[q].last_referenced : q \in DOMAIN utilization}
    IN IF all_timestamps = {} THEN 0
       ELSE (SetMax(all_timestamps) - SetMin(all_timestamps)) \div HoursPerDay

\* the first gate: no utilization data, or fewer reads than min_reads
GateReads(utilization, min_reads) ==
    DOMAIN utilization = {} \/ TotalReads(utilization) < min_reads

\* the second gate: the day span is below min_days
GateDays(utilization, min_days) == DaySpan(utilization) < min_days

ReadCounts(fs, utilization) ==
    [p \in DOMAIN fs |-> IF p \in DOMAIN utilization THEN utilization[p].count ELSE 0]

\* insertion of x into the sorted sequence s
RECURSIVE SortedInsert(_, _)
SortedInsert(s, x) ==
    IF s = <<>> THEN <<x>>
    ELSE IF x <= Head(s) THEN <<x>> \o s
    ELSE <<Head(s)>> \o SortedInsert(Tail(s), x)

\* sorted(read_counts.values())
RECURSIVE SortedCounts(_, _)
SortedCounts(read_counts, S) ==
    IF S = {} THEN <<>>
    ELSE LET q == CHOOSE q \in S : TRUE
         IN SortedInsert(SortedCounts(read_counts, S \ {q}), read_counts[q])

\* twice median_reads (the median is a whole number or a half)
Median2(read_counts) ==
    LET counts == SortedCounts(read_counts, DOMAIN read_counts)
        mid == Len(counts) \div 2
    IN IF Len(counts) % 2 = 0 /\ Len(counts) > 0 THEN At(counts, mid - 1) + At(counts, mid)
       ELSE IF Len(counts) > 0 THEN 2 * At(counts, mid)
       ELSE 0

\* areas[area]["overview_reads"]: reads of the area's overview.md, 0 if none
OverviewReads(fs, read_counts, area) ==
    IF P(area, "overview", FALSE) \in DOMAIN fs
    THEN read_counts[P(area, "overview", FALSE)] ELSE 0

DepthOf(fs, p) == FmGet(parse_frontmatter(fs[p]), "depth")

Rec(file, recommendation) == [file |-> file, recommendation |-> recommendation]

Classified(recs) == {recs[i].file : i \in 1..Len(recs)}

(***************************************************************************)
(* Deliberately wrong variants of the classifier, used to show that the    *)
(* properties below tell the classifier from its near misses.              *)
(***************************************************************************)
\* variant of StaleFiles: a read count equal to the median is enough
StaleFilesAtLeast(fs, read_counts) ==
    {p \in DOMAIN fs : 2 * read_counts[p] >= Median2(read_counts)
                          /\ check_freshness(p, fs[p]) # <<>>}

\* variant of ExpandDepthApplies: twice the median is enough
ExpandDepthAtLeast(fs, read_counts, p, recs) ==
    /\ p \notin Classified(recs)
    /\ DepthOf(fs, p) = "overview"
    /\ Median2(read_counts) > 0
    /\ read_counts[p] >= Median2(read_counts)

\* variant of LowUtilizationApplies: exactly 10% counts as low
LowUtilizationAtMost(fs, read_counts, p, recs) ==
    /\ p.area # ""
    /\ OverviewReads(fs, read_counts, p.area) >= _LOW_UTIL_MIN_OVERVIEW_READS
    /\ p \notin Classified(recs)
    /\ ~IsOverviewMd(p)
    /\ 10 * read_counts[p] <= OverviewReads(fs, read_counts, p.area)

\* variant of NeverReferencedApplies: a single read still counts as none
NeverReferencedBelowTwo(fs, read_counts, p, recs) ==
    /\ p \notin Classified(recs)
    /\ read_counts[p] <= 1

\* variant of NeverReferencedApplies: forgets the files already classified
NeverReferencedAnyFile(fs, read_counts, p, recs) == read_counts[p] = 0

\* variant of Categories: the first two priority loops swapped
CategoriesSwapped ==
    <<"expand_depth", "stale_high_use", "low_utilization", "never_referenced">>

\* stale_files: read above the median and check_freshness reports an issue
StaleFiles(fs, read_counts) ==
    {p \in DOMAIN fs : 2 * read_counts[p] > Median2(read_counts)
                          /\ check_freshness(p, fs[p]) # <<>>}

\* Priority 1
StaleHighUseApplies(fs, read_counts, p, recs) == p \in StaleFiles(fs, read_counts)

\* Priority 2
ExpandDepthApplies(fs, read_counts, p, recs) ==
    /\ p \notin Classified(recs)
    /\ DepthOf(fs, p) = "overview"
    /\ Median2(read_counts) > 0
    /\ read_counts[p] > Median2(read_counts)

\* Priority 3: reads < overview_reads * 0.1 (exact on these magnitudes)
LowUtilizationApplies(fs, read_counts, p, recs) ==
    /\ p.area # ""
    /\ OverviewReads(fs, read_counts, p.area) >= _LOW_UTIL_MIN_OVERVIEW_READS
    /\ p \notin Classified(recs)
    /\ ~IsOverviewMd(p)
    /\ 10 * read_counts[p] < OverviewReads(fs, read_counts, p.area)

\* Priority 4
NeverReferencedApplies(fs, read_counts, p, recs) ==
    /\ p \notin Classified(recs)
    /\ read_counts[p] = 0

Categories == <<"stale_high_use", "expand_depth", "low_utilization", "never_referenced">>

ByCategory(recs) ==
    [c \in {recs[i].recommendation : i \in 1..Len(recs)} |->
        Cardinality({i \in 1..Len(recs) : recs[i].recommendation = c})]

\* the condition under which a pass of the given category classifies p
Applies(category, fs, read_counts, p, recs) ==
    CASE category = "stale_high_use" -> StaleHighUseApplies(fs, read_counts, p, recs)
      [] category = "expand_depth" -> ExpandDepthApplies(fs, read_counts, p, recs)
      [] category = "low_utilization" -> LowUtilizationApplies(fs, read_counts, p, recs)
      [] OTHER -> NeverReferencedApplies(fs, read_counts, p, recs)

\* one classification pass: appends a recommendation for each file, in sorted
\* order, to which the category applies given the recommendations made so far
RECURSIVE ClassifyPass(_, _, _, _, _, _)
ClassifyPass(recs, fs, read_counts, md_files, i, category) ==
    IF i > Len(md_files) THEN recs
    ELSE ClassifyPass(
            IF Applies(category, fs, read_counts, md_files[i], recs)
            THEN Append(recs, Rec(md_files[i], category)) ELSE recs,
            fs, read_counts, md_files, i + 1, category)

\* the four priority loops, in the order of the code
RECURSIVE ClassifyFrom(_, _, _, _)
ClassifyFrom(recs, fs, read_counts, c) ==
    IF c > Len(Categories) THEN recs
    ELSE ClassifyFrom(
            ClassifyPass(recs, fs, read_counts, _discover_md_files(fs), 1, Categories[c]),
            fs, read_counts, c + 1)

Classify(fs, read_counts) == ClassifyFrom(<<>>, fs, read_counts, 1)

Skipped == [skipped |-> TRUE, recommendations |-> <<>>, by_category |-> <<>>,
            total_files |-> 0, files_with_recommendations |-> 0]

generate_recommendations(fs, log, min_reads, min_days) ==
    LET utilization == read_utilization(log)
        recs == Classify(fs, ReadCounts(fs, utilization))
    IN IF GateReads(utilization, min_reads) THEN Skipped
       ELSE IF GateDays(utilization, min_days) THEN Skipped
       ELSE [skipped |-> FALSE, recommendations |-> recs, by_category |-> ByCategory(recs),
             total_files |-> Cardinality(DOMAIN fs),
             files_with_recommendations |-> Len(recs)]

(***************************************************************************)
(* cross_validators.py: check_duplicate_content.  Prose lines carry the    *)
(* text they stand for:                                                    *)
(*   long1  "alpha beta gamma delta epsilon zeta eta theta"        (45)    *)
(*   long2  "one two three four five six seven eight nine"         (44)    *)
(*   short  "iota kappa lambda mu"                                 (20)    *)
(***************************************************************************)
Prose(id) == Mk("prose", id)
Fence == Mk("fence", "")                 \* "```"

CharLen(line) ==
    CASE line.k = "blank" -> 0
      [] line.k = "fence" -> 3
      [] line.k = "prose" /\ line.a = "long1" -> 45
      [] line.k = "prose" /\ line.a = "long2" -> 44
      [] line.k = "prose" /\ line.a = "short" -> 20

\* re.findall(r"[a-z]+", line.lower())
LineWords(line) ==
    CASE line.k = "blank" -> <<>>
      [] line.k = "fence" -> <<>>
      [] line.k = "prose" /\ line.a = "long1" ->
            <<"alpha", "beta", "gamma", "delta", "epsilon", "zeta", "eta", "theta">>
      [] line.k = "prose" /\ line.a = "long2" ->
            <<"one", "two", "three", "four", "five", "six", "seven", "eight", "nine">>
      [] line.k = "prose" /\ line.a = "short" -> <<"iota", "kappa", "lambda", "mu">>

MinParagraphChars == 40
ShingleSize == 5
\* similarity_threshold = 0.4, in tenths
SimilarityThresholdTenths == 4

RECURSIVE Flatten(_)
Flatten(ss) == IF ss = <<>> THEN <<>> ELSE Head(ss) \o Flatten(Tail(ss))

\* the elements of s in order, each kept at its first occurrence only
Dedupe(s) ==
    LET D[i \in 0..Len(s)] ==
            IF i = 0 THEN <<>>
            ELSE IF s[i] \in Range(D[i - 1]) THEN D[i - 1] ELSE Append(D[i - 1], s[i])
    IN D[Len(s)]

\* (s[i], s[j]) for i < j, in the order of the two nested loops
PairsOf(s) ==
    Flatten([i \in 1..Len(s) |-> [j \in 1..(Len(s) - i) |-> <<s[i], s[i + j]>>]])

\* fence lines and the lines inside a fence become ""
_strip_fenced_code_blocks(lines) ==
    LET F[i \in 0..Len(lines)] ==
            IF i = 0 THEN [in_fence |-> FALSE, result |-> <<>>]
            ELSE LET st == F[i - 1]
                 IN IF lines[i].k = "fence"
                    THEN [in_fence |-> ~st.in_fence, result |-> Append(st.result, Blank)]
                    ELSE IF st.in_fence
                         THEN [st EXCEPT !.result = Append(st.result, Blank)]
                         ELSE [st EXCEPT !.result = Append(st.result, lines[i])]
    IN F[Len(lines)].result

\* len("\n".join(para))
ParaLen(para) ==
    LET S[i \in 0..Len(para)] == IF i = 0 THEN 0 ELSE S[i - 1] + CharLen(para[i])
    IN S[Len(para)] + (IF Len(para) = 0 THEN 0 ELSE Len(para) - 1)

\* re.split(r"\n\s*\n", text): the maximal runs of non-blank lines, stripped,
\* those of at least 40 characters kept
_extract_paragraphs(lines) ==
    LET F[i \in 0..Len(lines)] ==
            IF i = 0 THEN [paras |-> <<>>, cur |-> <<>>]
            ELSE LET st == F[i - 1]
                 IN IF StripIsEmpty(lines[i])
                    THEN IF st.cur = <<>> THEN st
                         ELSE [paras |-> Append(st.paras, st.cur), cur |-> <<>>]
                    ELSE [st EXCEPT !.cur = Append(st.cur, lines[i])]
        last == F[Len(lines)]
        all == IF last.cur = <<>> THEN last.paras ELSE Append(last.paras, last.cur)
    IN SelectSeq2(all, LAMBDA p : ParaLen(p) >= MinParagraphChars)

_word_shingles(lines) ==
    LET words == Flatten([i \in 1..Len(lines) |-> LineWords(lines[i])])
    IN IF Len(words) < ShingleSize THEN {}
       ELSE {SubSeq(words, i, i + ShingleSize - 1) : i \in 1..(Len(words) - ShingleSize + 1)}

\* variant: the share of a's shingles found in b
_jaccard_containment(a, b) ==
    IF a \cup b = {} THEN [n |-> 0, d |-> 1]
    ELSE [n |-> Cardinality(a \cap b), d |-> Cardinality(a)]

\* |a & b| / |a | b| as a fraction n/d; 0 when the union is empty
_jaccard(a, b) ==
    IF a \cup b = {} THEN [n |-> 0, d |-> 1]
    ELSE [n |-> Cardinality(a \cap b), d |-> Cardinality(a \cup b)]

\* sim > similarity_threshold
AboveThreshold(sim) == 10 * sim.n > SimilarityThresholdTenths * sim.d

_is_companion_pair(path_a, path_b) ==
    IF path_a.area # path_b.area THEN FALSE
    ELSE IF path_a.ref THEN ~path_b.ref /\ path_b.stem = path_a.stem
    ELSE IF path_b.ref THEN path_a.stem = path_b.stem
    ELSE FALSE

\* the *.md files of the area directories, sorted
DupAllFiles(fs) == SelectSeq2(PathSeq, LAMBDA p : p \in DOMAIN fs /\ p.area # "")

FileData(fs, f) ==
    LET body == _strip_fenced_code_blocks(_body_without_frontmatter(fs[f]))
    IN [paragraphs |-> _extract_paragraphs(body), shingles |-> _word_shingles(body)]

\* pass 1: one warning per pair of files that hold the same paragraph
ExactDuplicatePass(all_files, file_data) ==
    LET occ == Flatten([i \in 1..Len(all_files) |->
                    [j \in 1..Len(file_data[all_files[i]].paragraphs) |->
                        [para |-> file_data[all_files[i]].paragraphs[j],
                         file |-> all_files[i]]]])
        hashes == Dedupe([i \in 1..Len(occ) |-> occ[i].para])
        unique_files(h) ==
            SelectSeq2(PathSeq, LAMBDA p : \E i \in 1..Len(occ) : occ[i].para = h /\ occ[i].file = p)
        pairs == Dedupe(Flatten([i \in 1..Len(hashes) |-> PairsOf(unique_files(hashes[i]))]))
    IN [i \in 1..Len(pairs) |-> Issue(pairs[i][1], "exact_duplicate", pairs[i][2], "warn")]

\* pass 2: one warning per non-companion pair whose shingle sets overlap enough
SimilarityPass(all_files, file_data) ==
    LET similar(pr) ==
            /\ ~_is_companion_pair(pr[1], pr[2])
            /\ file_data[pr[1]].shingles # {}
            /\ file_data[pr[2]].shingles # {}
            /\ AboveThreshold(_jaccard(file_data[pr[1]].shingles, file_data[pr[2]].shingles))
        pairs == SelectSeq2(PairsOf(all_files), similar)
    IN [i \in 1..Len(pairs) |-> Issue(pairs[i][1], "high_similarity", pairs[i][2], "warn")]

check_duplicate_content(fs) ==
    LET all_files == DupAllFiles(fs)
    IN IF Len(all_files) < 2 THEN <<>>
       ELSE LET file_data == [f \in Range(all_files) |-> FileData(fs, f)]
            IN ExactDuplicatePass(all_files, file_data) \o SimilarityPass(all_files, file_data)

(***************************************************************************)
(* Documents of the initial states                                         *)
(***************************************************************************)
Frontmatter(depth) == <<Delim, Kv("depth", depth), Delim>>

WorkingVocab == {H1, Blank, Text} \cup {H2(_WORKING_SECTIONS[i]) : i \in 1..5}
OverviewVocab == {H1, Blank, Text} \cup {H2(_OVERVIEW_SECTIONS[i]) : i \in 1..2}

NoPlan == [exists |-> FALSE, lines |-> <<>>]

RecIdle ==
    /\ utilLog = <<>>
    /\ minReads = 0
    /\ minDays = 0
    /\ recResult = Skipped

NoContent == [exists |-> FALSE, text |-> <<>>]

MergeIdle ==
    /\ mergeFile = NoContent
    /\ mergeSection = <<>>

ReportIdle ==
    /\ lastIssues = <<>>
    /\ healthLog = <<>>
    /\ lastResult = <<>>

(***************************************************************************)
(* Specification SpecSections: one working or overview document, any body  *)
(* of at most MaxBody lines; the section validator and fixer run on it.    *)
(***************************************************************************)
InitSections ==
    /\ \E d \in {"working", "overview"} :
         \E body \in SeqsUpTo(IF d = "working" THEN WorkingVocab ELSE OverviewVocab, MaxBody) :
            files = [p \in {P("a1", IF d = "working" THEN "t" ELSE "overview", FALSE)}
                        |-> Frontmatter(d) \o body]
    /\ plan = NoPlan
    /\ fixes = <<>>
    /\ op = "init"
    /\ runs = 0
    /\ prevFiles = files
    /\ prevPlan = plan
    /\ RecIdle
    /\ ReportIdle
    /\ MergeIdle

\* fix_missing_sections(file, check_section_completeness(file))
FixMissingSections(path) ==
    /\ runs < MaxRuns
    /\ path \in DOMAIN files
    /\ LET r == fix_missing_sections(path, files[path],
                    check_section_completeness(path, files[path]))
       IN /\ files' = [files EXCEPT ![path] = r.lines]
          /\ fixes' = r.actions
    /\ op' = "fix_missing_sections"
    /\ runs' = runs + 1
    /\ prevFiles' = files
    /\ prevPlan' = plan
    /\ UNCHANGED <<plan, recVars, reportVars, mergeVars>>

NextSections == \E path \in Paths : FixMissingSections(path)

SpecSections == InitSections /\ [][NextSections]_vars

(***************************************************************************)
(* Specification SpecPlan: a curation plan of at most MaxPlan lines and    *)
(* any set of topic files on disk; fix_curation_plan_checkmarks runs.      *)
(***************************************************************************)
PlanVocab ==
    {PlanH2("a1"), PlanH2("a2"), PlanText,
     PlanItem("T", FALSE, 1), PlanItem("T", TRUE, 1), PlanItem("T", FALSE, 2),
     PlanItem("T Plus", FALSE, 1)}

TopicDoc == Frontmatter("working") \o <<H1>>

InitPlan ==
    /\ \E present \in SUBSET {P("a1", "t", FALSE), P("a2", "t", FALSE)} :
         files = [p \in present |-> TopicDoc]
    /\ \E ls \in SeqsUpTo(PlanVocab, MaxPlan) : plan = [exists |-> TRUE, lines |-> ls]
    /\ fixes = <<>>
    /\ op = "init"
    /\ runs = 0
    /\ prevFiles = files
    /\ prevPlan = plan
    /\ RecIdle
    /\ ReportIdle
    /\ MergeIdle

\* fix_curation_plan_checkmarks(root)
FixCurationPlanCheckmarks ==
    /\ runs < MaxRuns
    /\ plan.exists
    /\ LET r == fix_curation_plan_checkmarks(plan, files)
       IN /\ plan' = [plan EXCEPT !.lines = r.lines]
          /\ fixes' = r.actions
    /\ op' = "fix_curation_plan_checkmarks"
    /\ runs' = runs + 1
    /\ prevFiles' = files
    /\ prevPlan' = plan
    /\ UNCHANGED <<files, recVars, reportVars, mergeVars>>

NextPlan == FixCurationPlanCheckmarks

SpecPlan == InitPlan /\ [][NextPlan]_vars

(***************************************************************************)
(* Specification SpecPlanSync: the plans and topic files of SpecPlan, the  *)
(* plan file present or not; check_curation_plan_sync runs on them.        *)
(***************************************************************************)
InitPlanSync ==
    /\ \E present \in SUBSET {P("a1", "t", FALSE), P("a2", "t", FALSE)} :
         files = [p \in present |-> TopicDoc]
    /\ \E ls \in SeqsUpTo(PlanVocab, MaxPlan) :
         plan \in {NoPlan, [exists |-> TRUE, lines |-> ls]}
    /\ fixes = <<>>
    /\ op = "init"
    /\ runs = 0
    /\ prevFiles = files
    /\ prevPlan = plan
    /\ RecIdle /\ ReportIdle /\ MergeIdle

\* check_curation_plan_sync(root)
CheckCurationPlanSync ==
    /\ runs < MaxRuns
    /\ lastIssues' = check_curation_plan_sync(plan, files)
    /\ op' = "check_curation_plan_sync"
    /\ runs' = runs + 1
    /\ UNCHANGED <<files, plan, fixes, prevFiles, prevPlan, healthLog, recVars, mergeVars, lastResult>>

NextPlanSync == CheckCurationPlanSync

SpecPlanSync == InitPlanSync /\ [][NextPlanSync]_vars

(***************************************************************************)
(* Specification SpecHealth: a knowledge base of two areas with a working  *)
(* topic, its reference companion, an overview and a curation plan;        *)
(* run_health_check runs on it with fix=True or dry_run=True.              *)
(***************************************************************************)
TopicVocab == {H1, H2("Go Deeper"), RefLink("t"), ExtLink}
RefVocab == {Text, SeeAlsoText, SeeAlso("t")}
HealthPlanVocab ==
    {PlanH2("a1"), PlanH2("a2"),
     PlanItem("T", FALSE, 1), PlanItem("T", TRUE, 1), PlanItem("T Plus", FALSE, 1)}

OverviewDoc == Frontmatter("overview") \o <<H1, Blank, H2("What This Covers")>>

DefaultPlan == [exists |-> TRUE, lines |-> <<PlanH2("a1"), PlanItem("T", FALSE, 1)>>]

\* the files of a knowledge base given as path :> content pairs, <<>> = absent
Disk(c) == [p \in {q \in DOMAIN c : c[q] # <<>>} |-> c[p]]

\* initial states that vary the documents: the working topic a1/t.md (any body
\* of at most MaxTopicBody lines, or absent), its companion a1/t.ref.md, and
\* the overview
InitHealthDocs ==
    /\ \E topic \in {<<>>} \cup {Frontmatter("working") \o b :
                                    b \in SeqsUpTo(TopicVocab, MaxTopicBody)},
          ref \in {<<>>} \cup {Frontmatter("reference") \o b : b \in SeqsUpTo(RefVocab, 1)},
          overview \in {<<>>, OverviewDoc} :
         files = Disk([p \in {PathSeq[1], PathSeq[2], PathSeq[3]} |->
                        IF p = PathSeq[1] THEN overview
                        ELSE IF p = PathSeq[2] THEN topic ELSE ref])
    /\ plan \in {NoPlan, DefaultPlan}

\* initial states that vary the curation plan (at most MaxHealthPlan lines)
\* and which topic files are on disk
InitHealthPlan ==
    /\ \E present \in SUBSET {P("a1", "t", FALSE), P("a2", "t", FALSE)} :
         files = [p \in present \cup {P("a1", "overview", FALSE)} |->
                    IF IsOverviewMd(p) THEN OverviewDoc ELSE TopicDoc]
    /\ \E ls \in SeqsUpTo(HealthPlanVocab, MaxHealthPlan) :
         plan = [exists |-> TRUE, lines |-> ls]

InitHealth ==
    /\ InitHealthDocs \/ InitHealthPlan
    /\ fixes = <<>>
    /\ op = "init"
    /\ runs = 0
    /\ prevFiles = files
    /\ prevPlan = plan
    /\ RecIdle
    /\ ReportIdle
    /\ MergeIdle

\* run_health_check(root, fix=fix, dry_run=dry_run)
RunHealthCheck(fix, dry_run, name) ==
    /\ runs < MaxRuns
    /\ LET r == run_health_check(files, plan, fix, dry_run)
           md_files == _discover_md_files(files)
           all_issues == ReportIssues(files, plan, healthLog)
       IN /\ files' = r.files
          /\ plan' = r.plan
          /\ fixes' = r.fixes
          /\ lastIssues' = all_issues
          /\ lastResult' = Summary(all_issues, md_files)
          /\ healthLog' = record_snapshot(healthLog, Tier1Summary(md_files), NoSummary, md_files)
    /\ op' = name
    /\ runs' = runs + 1
    /\ prevFiles' = files
    /\ prevPlan' = plan
    /\ UNCHANGED <<recVars, mergeVars>>

RunHealthCheckFix == RunHealthCheck(TRUE, FALSE, "health_fix")

RunHealthCheckDryRun == \E fix \in BOOLEAN : RunHealthCheck(fix, TRUE, "health_dry_run")

NextHealth == RunHealthCheckFix \/ RunHealthCheckDryRun

SpecHealth == InitHealth /\ [][NextHealth]_vars

(***************************************************************************)
(* Specification SpecConverge: run_health_check(fix=True) is run again and *)
(* again on a knowledge base nobody else touches.  The frontmatter of the  *)
(* working topic may hold a "## Go Deeper" line (a YAML comment).          *)
(***************************************************************************)
MaxConvergeBody == 2  \* body lines of a1/t.md in SpecConverge

FrontmatterWithHeading(depth) == <<Delim, Kv("depth", depth), H2("Go Deeper"), Delim>>

InitConverge ==
    /\ \E fm \in {Frontmatter("working"), FrontmatterWithHeading("working")},
          b \in SeqsUpTo(TopicVocab, MaxConvergeBody),
          ref \in {<<>>} \cup {Frontmatter("reference") \o rb : rb \in SeqsUpTo(RefVocab, 1)} :
         files = Disk([p \in {PathSeq[2], PathSeq[3]} |->
                        IF p = PathSeq[2] THEN fm \o b ELSE ref])
    /\ plan \in {NoPlan, DefaultPlan}
    /\ fixes = <<>>
    /\ op = "init"
    /\ runs = 0
    /\ prevFiles = files
    /\ prevPlan = plan
    /\ RecIdle /\ ReportIdle /\ MergeIdle

NextConverge == RunHealthCheckFix

SpecConverge == InitConverge /\ [][NextConverge]_vars

(***************************************************************************)
(* Specification SpecFixers: a working topic and its reference companion;  *)
(* fix_missing_sections and fix_missing_cross_links are called on one of   *)
(* them with an issue list that may or may not concern it.                 *)
(***************************************************************************)
OtherTopic == P("a2", "t", FALSE)

\* issue lists: none, issues naming another file, issues of kinds the fixers
\* do not read, and the findings of the validators for either document
IssueListsFor(p, fs) ==
    {<<>>,
     <<Issue(OtherTopic, "missing_section", "In Practice", "warn"),
       Issue(OtherTopic, "go_deeper_ref", "t", "warn"),
       Issue(Companion(OtherTopic), "ref_no_see_also", "", "warn")>>,
     <<Issue(p, "plan_not_in_plan", "", "warn"), Issue(p, "stale", "", "warn")>>}
        \cup {PerFileIssues(q, fs[q]) : q \in DOMAIN fs}

InitFixers ==
    /\ \E b \in SeqsUpTo(TopicVocab, MaxTopicBody), r \in SeqsUpTo(RefVocab, 1) :
         files = [p \in {P("a1", "t", FALSE), P("a1", "t", TRUE)} |->
                    IF p.ref THEN Frontmatter("reference") \o r
                    ELSE Frontmatter("working") \o b]
    /\ plan = NoPlan
    /\ fixes = <<>>
    /\ op = "init"
    /\ runs = 0
    /\ prevFiles = files
    /\ prevPlan = plan
    /\ RecIdle /\ ReportIdle /\ MergeIdle

\* fix_missing_sections(file, issues) then fix_missing_cross_links(file, issues)
FixersOn(p) ==
    /\ runs < MaxRuns
    /\ \E issues \in IssueListsFor(p, files) :
          LET st == ApplyFixes([files |-> files, fixes |-> <<>>], p, issues)
          IN /\ files' = st.files
             /\ fixes' = st.fixes
             /\ lastIssues' = issues
    /\ op' = "fixers"
    /\ runs' = runs + 1
    /\ prevFiles' = files
    /\ prevPlan' = plan
    /\ UNCHANGED <<plan, healthLog, recVars, mergeVars, lastResult>>

NextFixers == \E p \in DOMAIN files : FixersOn(p)

SpecFixers == InitFixers /\ [][NextFixers]_vars

(***************************************************************************)
(* Specification SpecRec: a knowledge base of up to three documents and a  *)
(* utilization log; generate_recommendations runs on them with thresholds  *)
(* min_reads and min_days.                                                 *)
(***************************************************************************)
MaxRecRuns == 1

RecDoc(depth, validated) ==
    <<Delim, Kv("depth", depth), Kv("last_validated", validated), Delim, H1>>

\* read counts that straddle the thresholds of the classification
ReadChoices == {0, 1, 3, 10, 30}

\* n log events for path p, all at time ts
Block(p, n, ts) == [i \in 1..n |-> [file |-> p, ts |-> ts]]

\* the log with counts[p] events per path, in path order; its first event is
\* written at hour t0 and all later ones at hour t1
RECURSIVE LogFrom(_, _, _)
LogFrom(counts, i, ts) ==
    IF i > Len(PathSeq) THEN <<>>
    ELSE IF PathSeq[i] \in DOMAIN counts
    THEN Block(PathSeq[i], counts[PathSeq[i]], ts) \o LogFrom(counts, i + 1, ts)
    ELSE LogFrom(counts, i + 1, ts)

LogOf(counts, t0, t1) ==
    LET log == LogFrom(counts, 1, t1)
    IN IF log = <<>> THEN log ELSE <<[log[1] EXCEPT !.ts = t0]>> \o Tail(log)

RecPaths == {P("a1", "overview", FALSE), P("a1", "t", FALSE), P("a2", "t", FALSE)}

\* initial states that vary depth, freshness and read count of each document;
\* a2/t.md may be absent while the log still mentions it
InitRecClassify ==
    /\ \E overview \in {RecDoc("overview", "age0"), RecDoc("overview", "age91"),
                        RecDoc("working", "age0")},
          topic \in {RecDoc(d, v) : d \in {"overview", "working"}, v \in {"age0", "age91"}},
          other \in {<<>>, RecDoc("overview", "age0"), RecDoc("working", "age91")} :
         files = Disk([p \in RecPaths |->
                        IF IsOverviewMd(p) THEN overview
                        ELSE IF p.area = "a1" THEN topic ELSE other])
    /\ \E counts \in [RecPaths -> ReadChoices] :
         /\ counts[P("a2", "t", FALSE)] \in {0, 3, 30}
         /\ utilLog = LogOf(counts, 0, 8 * HoursPerDay)

\* initial states that vary the last_validated value of one document
InitRecFreshness ==
    /\ \E topic \in {<<H1>>, Frontmatter("overview") \o <<H1>>}
                      \cup {RecDoc(d, v) : d \in {"overview", "working"},
                                           v \in {"age0", "age90", "age91", "invalid"}} :
         files = [p \in {P("a1", "overview", FALSE), P("a1", "t", FALSE)} |->
                    IF IsOverviewMd(p) THEN RecDoc("overview", "age0") ELSE topic]
    /\ \E counts \in [{P("a1", "overview", FALSE), P("a1", "t", FALSE)} -> {0, 1, 3}] :
         utilLog = LogOf(counts, 0, 8 * HoursPerDay)

\* initial states that vary the size and the time span of the log
InitRecGating ==
    /\ files = [p \in {P("a1", "overview", FALSE), P("a1", "t", FALSE)} |->
                    IF IsOverviewMd(p) THEN RecDoc("overview", "age0")
                    ELSE RecDoc("working", "age0")]
    /\ \E counts \in [{P("a1", "t", FALSE), P("a2", "t", FALSE)} -> {0, 1, 5, 9}],
          t0 \in {0, 1}, t1 \in {1, 7 * HoursPerDay, 7 * HoursPerDay + 1} :
         utilLog = LogOf(counts, t0, t1)

InitRec ==
    /\ InitRecClassify \/ InitRecFreshness \/ InitRecGating
    /\ plan = NoPlan
    /\ fixes = <<>>
    /\ op = "init"
    /\ runs = 0
    /\ prevFiles = files
    /\ prevPlan = plan
    /\ minReads = 0
    /\ minDays = 0
    /\ recResult = Skipped
    /\ ReportIdle
    /\ MergeIdle

\* generate_recommendations(root, min_reads=min_reads, min_days=min_days)
GenerateRecommendations ==
    /\ runs < MaxRecRuns
    /\ \E min_reads \in {0, 10}, min_days \in {0, 7} :
         /\ minReads' = min_reads
         /\ minDays' = min_days
         /\ recResult' = generate_recommendations(files, utilLog, min_reads, min_days)
    /\ op' = "generate_recommendations"
    /\ runs' = runs + 1
    /\ UNCHANGED <<files, plan, fixes, prevFiles, prevPlan, utilLog, reportVars, mergeVars>>

NextRec == GenerateRecommendations

SpecRec == InitRec /\ [][NextRec]_vars

(***************************************************************************)
(* Specification SpecUtilization: record_reference appends events to the   *)
(* log, read_utilization reads it.  The timestamp is the local wall clock  *)
(* (datetime.now()), which need not advance between two calls and can be   *)
(* set back.                                                               *)
(***************************************************************************)
MaxLogLen == 3        \* record_reference calls per behaviour
MaxClock == 2         \* wall-clock readings 0..MaxClock

UtilPaths == {P("a1", "t", FALSE), P("a2", "t", FALSE)}

InitUtilization ==
    /\ files = [p \in {P("a1", "t", FALSE)} |-> TopicDoc]
    /\ plan = NoPlan
    /\ fixes = <<>>
    /\ op = "init"
    /\ runs = 0
    /\ prevFiles = files
    /\ prevPlan = plan
    /\ RecIdle /\ ReportIdle /\ MergeIdle

\* record_reference(knowledge_base_root, file_path, context)
RecordReference ==
    /\ Len(utilLog) < MaxLogLen
    /\ \E p \in UtilPaths, now \in 0..MaxClock :
          utilLog' = Append(utilLog, [file |-> p, ts |-> now])
    /\ op' = "record_reference"
    /\ runs' = runs + 1
    /\ UNCHANGED <<files, plan, fixes, prevFiles, prevPlan, minReads, minDays, recResult,
                   reportVars, mergeVars>>

\* read_utilization(knowledge_base_root)
ReadUtilization ==
    /\ lastResult' = read_utilization(utilLog)
    /\ op' = "read_utilization"
    /\ UNCHANGED <<files, plan, fixes, prevFiles, prevPlan, runs, recVars,
                   lastIssues, healthLog, mergeVars>>

NextUtilization == RecordReference \/ ReadUtilization

SpecUtilization == InitUtilization /\ [][NextUtilization]_vars

(***************************************************************************)
(* Specification SpecDup: up to three documents (a working document, its   *)
(* reference companion, a document of another area) with prose bodies;     *)
(* check_duplicate_content runs on them.                                   *)
(***************************************************************************)
MaxDupBody == 2       \* body lines of a1/t.md in SpecDup

DupVocab == {Blank, Fence, Prose("long1"), Prose("long2"), Prose("short")}

DupBodies ==
    {<<Prose("long1")>>, <<Prose("short")>>, <<Prose("short"), Prose("short")>>,
     <<Prose("long1"), Prose("short")>>, <<Prose("long1"), Blank, Prose("long2")>>,
     <<Fence, Prose("long1"), Fence>>}

DupDisk(t, r, o) ==
    LET present == {P("a1", "t", FALSE)}
                     \cup (IF r.exists THEN {P("a1", "t", TRUE)} ELSE {})
                     \cup (IF o.exists THEN {P("a2", "t", FALSE)} ELSE {})
    IN [p \in present |->
            IF p = P("a1", "t", FALSE) THEN t
            ELSE IF p = P("a1", "t", TRUE) THEN Frontmatter("reference") \o r.lines
            ELSE Frontmatter("working") \o o.lines]

InitDup ==
    /\ \E t \in SeqsUpTo(DupVocab, MaxDupBody), fm \in BOOLEAN,
          r \in {NoPlan} \cup {[exists |-> TRUE, lines |-> b] : b \in DupBodies},
          o \in {NoPlan} \cup {[exists |-> TRUE, lines |-> b] : b \in DupBodies} :
            files = DupDisk(IF fm THEN Frontmatter("working") \o t ELSE t, r, o)
    /\ plan = NoPlan
    /\ fixes = <<>>
    /\ op = "init"
    /\ runs = 0
    /\ prevFiles = files
    /\ prevPlan = plan
    /\ RecIdle /\ ReportIdle /\ MergeIdle

CheckDuplicateContent ==
    /\ runs < MaxRuns
    /\ lastIssues' = check_duplicate_content(files)
    /\ op' = "check_duplicate_content"
    /\ runs' = runs + 1
    /\ UNCHANGED <<files, plan, fixes, prevFiles, prevPlan, healthLog, recVars, mergeVars, lastResult>>

NextDup == CheckDuplicateContent

SpecDup == InitDup /\ [][NextDup]_vars

(***************************************************************************)
(* Specification SpecFrontmatter: one document of at most MaxFmLines       *)
(* lines, delimiter lines anywhere; parse_frontmatter runs on it.          *)
(***************************************************************************)
MaxFmLines == 4       \* lines of the document in SpecFrontmatter

FmVocab == {Delim, Kv("depth", "working"), Kv("last_validated", "age0"), Text}

InitFrontmatter ==
    /\ \E ls \in SeqsUpTo(FmVocab, MaxFmLines) : files = [p \in {P("a1", "t", FALSE)} |-> ls]
    /\ plan = NoPlan
    /\ fixes = <<>>
    /\ op = "init"
    /\ runs = 0
    /\ prevFiles = files
    /\ prevPlan = plan
    /\ RecIdle /\ ReportIdle /\ MergeIdle

\* parse_frontmatter(file_path)
ParseFrontmatter ==
    /\ runs < MaxRuns
    /\ \E p \in DOMAIN files : lastResult' = parse_frontmatter(files[p])
    /\ op' = "parse_frontmatter"
    /\ runs' = runs + 1
    /\ UNCHANGED <<files, plan, fixes, prevFiles, prevPlan, lastIssues, healthLog, recVars, mergeVars>>

NextFrontmatter == ParseFrontmatter

SpecFrontmatter == InitFrontmatter /\ [][NextFrontmatter]_vars

(***************************************************************************)
(* Specification SpecShingles: a document and its companion with the prose *)
(* of SpecDup; the similarity of the shingle sets of two documents is       *)
(* computed in both directions.                                            *)
(***************************************************************************)
ShinglesOf(fs, p) == FileData(fs, p).shingles

MaxShingleBody == 2   \* body lines of a1/t.md in SpecShingles

InitShingles ==
    /\ \E t \in SeqsUpTo(DupVocab, MaxShingleBody), r \in DupBodies \cup {<<>>} :
          files = [p \in {P("a1", "t", FALSE), P("a1", "t", TRUE)} |->
                      IF p.ref THEN r ELSE t]
    /\ plan = NoPlan
    /\ fixes = <<>>
    /\ op = "init"
    /\ runs = 0
    /\ prevFiles = files
    /\ prevPlan = plan
    /\ RecIdle /\ ReportIdle /\ MergeIdle

\* _jaccard(shingles_a, shingles_b) and _jaccard(shingles_b, shingles_a)
ComputeJaccard ==
    /\ runs < MaxRuns
    /\ \E a, b \in DOMAIN files :
          lastResult' = [a |-> a, b |-> b,
                         ab |-> _jaccard(ShinglesOf(files, a), ShinglesOf(files, b)),
                         ba |-> _jaccard(ShinglesOf(files, b), ShinglesOf(files, a))]
    /\ op' = "jaccard"
    /\ runs' = runs + 1
    /\ UNCHANGED <<files, plan, fixes, prevFiles, prevPlan, lastIssues, healthLog, recVars, mergeVars>>

NextShingles == ComputeJaccard

SpecShingles == InitShingles /\ [][NextShingles]_vars

(***************************************************************************)
(* Specification SpecHistory: a knowledge base whose documents are created *)
(* and deleted between runs; the three reports run on it and the           *)
(* inventory validator is called on the log they leave.                    *)
(***************************************************************************)
HistPaths == {P("a1", "t", FALSE), P("a1", "t", TRUE)}

HistDoc(p) == Frontmatter(IF p.ref THEN "reference" ELSE "working") \o <<H1>>

InitHistory ==
    /\ \E present \in SUBSET HistPaths : files = [p \in present |-> HistDoc(p)]
    /\ plan = NoPlan
    /\ fixes = <<>>
    /\ op = "init"
    /\ runs = 0
    /\ prevFiles = files
    /\ prevPlan = plan
    /\ RecIdle /\ ReportIdle /\ MergeIdle

RunHealthCheckPlain == RunHealthCheck(FALSE, FALSE, "health")

\* run_tier2_prescreening(root)
RunTier2Prescreening ==
    /\ runs < MaxRuns
    /\ LET md_files == _discover_md_files(files)
       IN healthLog' = record_snapshot(healthLog, NoSummary, Tier2Summary(md_files), md_files)
    /\ op' = "tier2"
    /\ runs' = runs + 1
    /\ prevFiles' = files
    /\ prevPlan' = plan
    /\ UNCHANGED <<files, plan, fixes, lastIssues, recVars, mergeVars, lastResult>>

\* run_combined_report(root): both tiers run with _persist_history=False,
\* then one snapshot with both summaries
RunCombinedReport ==
    /\ runs < MaxRuns
    /\ LET md_files == _discover_md_files(files)
           tier1 == run_health_check(files, plan, FALSE, FALSE)
           all_issues == ReportIssues(files, plan, healthLog)
       IN /\ files' = tier1.files
          /\ plan' = tier1.plan
          /\ fixes' = tier1.fixes
          /\ lastIssues' = all_issues
          /\ lastResult' = Summary(all_issues, md_files)
          /\ healthLog' = record_snapshot(healthLog, Tier1Summary(md_files),
                                          Tier2Summary(md_files), md_files)
    /\ op' = "combined"
    /\ runs' = runs + 1
    /\ prevFiles' = files
    /\ prevPlan' = plan
    /\ UNCHANGED <<recVars, mergeVars>>

\* check_inventory_regression(root, file_list) on the documents now on disk
CheckInventoryRegression ==
    /\ lastIssues' = check_inventory_regression(healthLog, _discover_md_files(files))
    /\ op' = "check_inventory_regression"
    /\ UNCHANGED <<files, plan, fixes, runs, prevFiles, prevPlan, healthLog, recVars, mergeVars, lastResult>>

\* the curation workflow creates a document
CreateDocument ==
    /\ \E p \in HistPaths \ DOMAIN files :
           files' = [q \in DOMAIN files \cup {p} |-> HistDoc(q)]
    /\ op' = "edit"
    /\ UNCHANGED <<plan, fixes, runs, prevFiles, prevPlan, reportVars, recVars, mergeVars>>

\* the curation workflow deletes a document
DeleteDocument ==
    /\ \E p \in DOMAIN files : files' = [q \in DOMAIN files \ {p} |-> files[q]]
    /\ op' = "edit"
    /\ UNCHANGED <<plan, fixes, runs, prevFiles, prevPlan, reportVars, recVars, mergeVars>>

NextHistory ==
    \/ RunHealthCheckPlain
    \/ RunTier2Prescreening
    \/ RunCombinedReport
    \/ CheckInventoryRegression
    \/ CreateDocument
    \/ DeleteDocument

SpecHistory == InitHistory /\ [][NextHistory]_vars

(***************************************************************************)
(* Specification SpecInventory: the operations of SpecHistory on a         *)
(* knowledge base that is new or has had one run_health_check, whose       *)
(* snapshot lists the documents now on disk.                               *)
(***************************************************************************)
InitInventory ==
    /\ \E present \in SUBSET HistPaths : files = [p \in present |-> HistDoc(p)]
    /\ plan = NoPlan
    /\ fixes = <<>>
    /\ op = "init"
    /\ runs = 0
    /\ prevFiles = files
    /\ prevPlan = plan
    /\ RecIdle /\ MergeIdle
    /\ lastIssues = <<>>
    /\ lastResult = <<>>
    /\ LET md_files == _discover_md_files(files)
       IN healthLog \in {<<>>, record_snapshot(<<>>, Tier1Summary(md_files), NoSummary, md_files)}

SpecInventory == InitInventory /\ [][NextHistory]_vars

(***************************************************************************)
(* Specification SpecReport: two areas, each document absent, without      *)
(* frontmatter, with a depth only or with every required field; the        *)
(* overview of an area may be missing.  run_health_check runs with and     *)
(* without fix=True.                                                       *)
(***************************************************************************)
ReportPaths ==
    {P("a1", "overview", FALSE), P("a1", "t", FALSE), P("a1", "t", TRUE), P("a2", "t", FALSE)}

ReportDepth(p) == IF p.ref THEN "reference" ELSE IF IsOverviewMd(p) THEN "overview" ELSE "working"

FullDoc(p) ==
    <<Delim, Kv("sources", "url"), Kv("last_validated", "age0"), Kv("relevance", "core"),
      Kv("depth", ReportDepth(p)), Delim, H1>>

ReportDocs(p) == {<<>>, <<H1>>, Frontmatter(ReportDepth(p)) \o <<H1>>, FullDoc(p)}

InitReport ==
    /\ \E c \in [ReportPaths -> UNION {ReportDocs(p) : p \in ReportPaths}] :
          /\ \A p \in ReportPaths : c[p] \in ReportDocs(p)
          /\ files = Disk(c)
    /\ plan = NoPlan
    /\ fixes = <<>>
    /\ op = "init"
    /\ runs = 0
    /\ prevFiles = files
    /\ prevPlan = plan
    /\ RecIdle /\ ReportIdle /\ MergeIdle

RunHealthCheckReport == RunHealthCheck(FALSE, FALSE, "health")

NextReport == RunHealthCheckReport \/ RunHealthCheckFix

SpecReport == InitReport /\ [][NextReport]_vars

(***************************************************************************)
(* Specification SpecSeeAlso: one document named t.ref.md or t.md, of      *)
(* depth reference or working, with any body of at most MaxSeeAlsoBody     *)
(* lines; check_ref_see_also runs on it.                                   *)
(***************************************************************************)
MaxSeeAlsoBody == 2   \* body lines of the document in SpecSeeAlso

SeeAlsoVocab ==
    {Text, SeeAlsoText, SeeAlso("t"), SeeAlso("not"), SeeAlso("other"), Mention("t")}

InitSeeAlso ==
    /\ \E p \in {P("a1", "t", TRUE), P("a1", "t", FALSE)}, d \in {"reference", "working"},
          b \in SeqsUpTo(SeeAlsoVocab, MaxSeeAlsoBody) :
            files = [q \in {p} |-> Frontmatter(d) \o <<H1>> \o b]
    /\ plan = NoPlan
    /\ fixes = <<>>
    /\ op = "init"
    /\ runs = 0
    /\ prevFiles = files
    /\ prevPlan = plan
    /\ RecIdle /\ ReportIdle /\ MergeIdle

\* check_ref_see_also(file_path) on the document
CheckRefSeeAlso ==
    /\ runs < MaxRuns
    /\ \E p \in DOMAIN files : lastIssues' = check_ref_see_also(p, files[p])
    /\ op' = "check_ref_see_also"
    /\ runs' = runs + 1
    /\ UNCHANGED <<files, plan, fixes, prevFiles, prevPlan, healthLog, recVars, mergeVars, lastResult>>

NextSeeAlso == CheckRefSeeAlso

SpecSeeAlso == InitSeeAlso /\ [][NextSeeAlso]_vars

(***************************************************************************)
(* Specification SpecLinks: one area with an index, an overview, a topic   *)
(* and its reference companion, each present or not, linking to one        *)
(* another or not; check_link_graph runs on them.                          *)
(***************************************************************************)
MaxLinkBody == 1      \* body lines of a1/t.md in SpecLinks

LinkVocab ==
    {Text, ExtLink, RefLink("t"), SeeAlso("t"), SeeAlso("overview"), SeeAlso("index")}

OverviewBodies == {<<>>, <<SeeAlso("t")>>, <<RefLink("t")>>, <<ExtLink>>}
RefBodies == {<<>>, <<SeeAlso("t")>>, <<SeeAlso("overview")>>, <<SeeAlso("index")>>}
IndexBodies == {<<>>, <<SeeAlso("overview")>>, <<SeeAlso("t")>>}

Absent == [exists |-> FALSE, lines |-> <<>>]
Present(lines) == [exists |-> TRUE, lines |-> lines]

InitLinks ==
    /\ \E i \in {Absent} \cup {Present(<<H1>> \o b) : b \in IndexBodies},
          o \in {Absent} \cup {Present(Frontmatter("overview")
                                          \o <<H1, H2("How It's Organized")>> \o b)
                                  : b \in OverviewBodies},
          t \in {Absent} \cup {Present(Frontmatter("working") \o b)
                                  : b \in SeqsUpTo(LinkVocab, MaxLinkBody)},
          r \in {Absent} \cup {Present(Frontmatter("reference") \o b) : b \in RefBodies} :
         LET c == <<i, o, t, r>>
         IN files = [p \in {LinkPathSeq[n] : n \in {m \in 1..4 : c[m].exists}} |->
                        c[IndexOf(LinkPathSeq, p)].lines]
    /\ plan = NoPlan
    /\ fixes = <<>>
    /\ op = "init"
    /\ runs = 0
    /\ prevFiles = files
    /\ prevPlan = plan
    /\ RecIdle /\ ReportIdle /\ MergeIdle

CheckLinkGraph ==
    /\ runs < MaxRuns
    /\ lastIssues' = check_link_graph(files)
    /\ op' = "check_link_graph"
    /\ runs' = runs + 1
    /\ UNCHANGED <<files, plan, fixes, prevFiles, prevPlan, healthLog, recVars, mergeVars, lastResult>>

NextLinks == CheckLinkGraph

SpecLinks == InitLinks /\ [][NextLinks]_vars

(***************************************************************************)
(* Specification SpecMerge: a file (AGENTS.md) that is absent or holds any *)
(* text of at most MaxMergeLen tokens; merge_managed_section merges a      *)
(* rendered section into it and the result is written back.                *)
(***************************************************************************)
MaxMergeLen == 3      \* tokens of the existing file in SpecMerge

MergeTokens == {MARKER_BEGIN, MARKER_END, NL, "x"}

ManagedSections == {<<"s">>, <<"s2">>, <<"s", NL, "s2">>}

InitMerge ==
    /\ mergeFile \in {NoContent} \cup
           {[exists |-> TRUE, text |-> t] : t \in SeqsUpTo(MergeTokens, MaxMergeLen)}
    /\ mergeSection = <<>>
    /\ files = <<>>
    /\ plan = NoPlan
    /\ fixes = <<>>
    /\ op = "init"
    /\ runs = 0
    /\ prevFiles = files
    /\ prevPlan = plan
    /\ RecIdle /\ ReportIdle

\* scaffold: the merged text is written to the file
MergeManagedSection ==
    /\ runs < MaxRuns
    /\ ~MergeRaises(mergeFile)
    /\ \E s \in ManagedSections :
          /\ mergeFile' = [exists |-> TRUE,
                           text |-> merge_managed_section(mergeFile, s, render_agents_md(s))]
          /\ mergeSection' = s
    /\ op' = "merge"
    /\ runs' = runs + 1
    /\ UNCHANGED <<files, plan, fixes, prevFiles, prevPlan, reportVars, recVars>>

\* scaffold: merge_managed_section raises ValueError, nothing is written
MergeManagedSectionRaises ==
    /\ runs < MaxRuns
    /\ MergeRaises(mergeFile)
    /\ op' = "merge_raised"
    /\ runs' = runs + 1
    /\ UNCHANGED <<files, plan, fixes, prevFiles, prevPlan, reportVars, recVars, mergeVars>>

NextMerge == MergeManagedSection \/ MergeManagedSectionRaises

SpecMerge == InitMerge /\ [][NextMerge]_vars

(***************************************************************************)
(* Claims                                                                  *)
(***************************************************************************)
\* C1: a second run_health_check(fix=True) right after a first one applies no
\* further fix: documents and curation plan are the same after two runs as
\* after one.
C1_SecondFixRunChangesNothing ==
    op = "health_fix" =>
        LET again == run_health_check(files, plan, TRUE, FALSE)
        IN again.files = files /\ again.plan = plan /\ again.fixes = <<>>

\* the canonical sections of the "## " lines of a document, in line order
SectionSeq(lines) ==
    LET order == CanonicalOrder(FmGet(parse_frontmatter(lines), "depth"))
    IN SelectSeq2(lines, LAMBDA l : StartsWithH2(l) /\ l.a \in Range(order))

InCanonicalOrder(lines) ==
    LET order == CanonicalOrder(FmGet(parse_frontmatter(lines), "depth"))
        hs == SectionSeq(lines)
    IN \A i, j \in 1..Len(hs) : i < j => IndexOf(order, hs[i].a) <= IndexOf(order, hs[j].a)

StubsInserted == op = "fix_missing_sections" /\ fixes # <<>>

\* C2: when fix_missing_sections inserts stubs into a document whose existing
\* required sections are in canonical order, all required section headings of
\* the result are in canonical order.
C2_StubsInCanonicalOrder ==
    StubsInserted =>
        \A p \in DOMAIN files : InCanonicalOrder(prevFiles[p]) => InCanonicalOrder(files[p])

\* the area heading in force at line i of the plan, "" before the first one
PlanAreaAt(lines, i) ==
    LET hs == {j \in 1..i : lines[j].k = "h2"}
    IN IF hs = {} THEN "" ELSE lines[SetMax(hs)].a

\* line i is an unchecked item of an area whose document exists
UncheckedWithDocument(lines, fs, i) ==
    /\ lines[i].k = "item"
    /\ ~lines[i].c
    /\ PlanAreaAt(lines, i) # ""
    /\ TopicExists(fs, PlanAreaAt(lines, i), lines[i].a)

\* C3: fix_curation_plan_checkmarks turns the checkbox of exactly the unchecked
\* items whose document <knowledge_dir>/<area>/<slug(name)>.md exists into a
\* checked one and leaves every other line of the plan unchanged.
C3_ChecksExactlyItemsWithDocument ==
    op = "fix_curation_plan_checkmarks" =>
        /\ Len(plan.lines) = Len(prevPlan.lines)
        /\ \A i \in 1..Len(plan.lines) :
              plan.lines[i] = IF UncheckedWithDocument(prevPlan.lines, files, i)
                              THEN [prevPlan.lines[i] EXCEPT !.c = TRUE]
                              ELSE prevPlan.lines[i]

\* the kind of an action of the fixes list: stub section, cross link, plan item
ActionKind(a) ==
    CASE a.action \in {"inserted_stub_section", "would_insert_stub_section"} -> "stub section"
      [] a.action \in {"appended_see_also", "inserted_ref_link", "would_insert_cross_link"}
            -> "cross link"
      [] OTHER -> "plan item"

WouldPrefixed(a) ==
    a.action \in {"would_insert_stub_section", "would_insert_cross_link",
                  "would_check_plan_item"}

ActionKey(a) == [file |-> a.file, kind |-> ActionKind(a)]

ActionKeys(s) == {ActionKey(s[i]) : i \in 1..Len(s)}

CountKey(s, key) == Cardinality({i \in 1..Len(s) : ActionKey(s[i]) = key})

\* C4: the fixes list of run_health_check(dry_run=True) has exactly one
\* would_-prefixed entry per action that run_health_check(fix=True) applies to
\* the same state, for the same file and of the same kind, and nothing else.
C4_DryRunListsAppliedActions ==
    op = "health_dry_run" =>
        LET applied == run_health_check(files, plan, TRUE, FALSE).fixes
        IN /\ \A i \in 1..Len(fixes) : WouldPrefixed(fixes[i])
           /\ \A key \in ActionKeys(fixes) \cup ActionKeys(applied) :
                 CountKey(fixes, key) = CountKey(applied, key)

(***************************************************************************)
(* Claims about generate_recommendations                                   *)
(***************************************************************************)
Generated == op = "generate_recommendations"

GatingPassed == Generated /\ ~recResult.skipped

\* the number of log events that name document p
ReadsOf(p) == Cardinality({i \in 1..Len(utilLog) : utilLog[i].file = p})

\* twice the median of the read counts of the documents on disk
TwiceMedian == Median2([p \in DOMAIN files |-> ReadsOf(p)])

\* the categories recommended for document p
RecsOf(p) ==
    {recResult.recommendations[i].recommendation :
        i \in {j \in 1..Len(recResult.recommendations) :
                  recResult.recommendations[j].file = p}}

RECURSIVE SumOver(_, _)
SumOver(f, S) ==
    IF S = {} THEN 0
    ELSE LET x == CHOOSE x \in S : TRUE IN f[x] + SumOver(f, S \ {x})

\* C5: in every result of generate_recommendations no document appears in more
\* than one recommendation, and the by_category counts sum to the number of
\* recommendations.
C5_OneRecommendationPerDocument ==
    Generated =>
        LET recs == recResult.recommendations
        IN /\ \A i, j \in 1..Len(recs) : i # j => recs[i].file # recs[j].file
           /\ SumOver(recResult.by_category, DOMAIN recResult.by_category) = Len(recs)

C5_Witness ==
    /\ GatingPassed
    /\ Len(recResult.recommendations) >= 2
    /\ Cardinality(DOMAIN recResult.by_category) >= 2

IsStaleHighUse(p) == check_freshness(p, files[p]) # <<>> /\ 2 * ReadsOf(p) > TwiceMedian

IsExpandDepth(p) ==
    DepthOf(files, p) = "overview" /\ TwiceMedian > 0 /\ ReadsOf(p) > TwiceMedian

IsLowUtilization(p) ==
    /\ ~IsOverviewMd(p)
    /\ P(p.area, "overview", FALSE) \in DOMAIN files
    /\ ReadsOf(P(p.area, "overview", FALSE)) >= 10
    /\ 10 * ReadsOf(p) < ReadsOf(P(p.area, "overview", FALSE))

IsNeverReferenced(p) == ReadsOf(p) = 0

\* the categories whose conditions document p meets
CategoriesMet(p) ==
    (IF IsStaleHighUse(p) THEN {"stale_high_use"} ELSE {})
        \cup (IF IsExpandDepth(p) THEN {"expand_depth"} ELSE {})
        \cup (IF IsLowUtilization(p) THEN {"low_utilization"} ELSE {})
        \cup (IF IsNeverReferenced(p) THEN {"never_referenced"} ELSE {})

EarliestOf(S) ==
    IF "stale_high_use" \in S THEN "stale_high_use"
    ELSE IF "expand_depth" \in S THEN "expand_depth"
    ELSE IF "low_utilization" \in S THEN "low_utilization"
    ELSE "never_referenced"

\* C6: a document that meets the conditions of more than one category (the
\* conditions the classifier tests) receives exactly one recommendation, the
\* earliest of them in the order stale_high_use, expand_depth,
\* low_utilization, never_referenced.
C6_EarliestCategoryWins ==
    GatingPassed =>
        \A p \in DOMAIN files :
            Cardinality(CategoriesMet(p)) >= 2 => RecsOf(p) = {EarliestOf(CategoriesMet(p))}

C6_Witness ==
    /\ GatingPassed
    /\ \E p \in DOMAIN files :
          {"stale_high_use", "expand_depth"} \subseteq CategoriesMet(p)
    /\ \E p \in DOMAIN files :
          CategoriesMet(p) = {"low_utilization", "never_referenced"}
              /\ RecsOf(p) = {"low_utilization"}

\* the day span between the earliest and the latest event of the log
LogDaySpan ==
    LET ts == {utilLog[i].ts : i \in 1..Len(utilLog)}
    IN IF ts = {} THEN 0 ELSE (SetMax(ts) - SetMin(ts)) \div HoursPerDay

\* C7: the result is 'skipped' exactly when the total read count of the log is
\* below min_reads or its day span is below min_days; in particular it is
\* never 'skipped' with min_reads = 0 and min_days = 0.
C7_SkippedExactlyBelowThresholds ==
    Generated =>
        (recResult.skipped <=> (Len(utilLog) < minReads \/ LogDaySpan < minDays))

\* C8 as stated: a document not classified stale_high_use whose depth is
\* overview receives expand_depth if and only if its read count is strictly
\* greater than twice the median read count.
C8_ExpandDepthIffAboveTwiceMedian ==
    GatingPassed =>
        \A p \in DOMAIN files :
            ("stale_high_use" \notin RecsOf(p) /\ DepthOf(files, p) = "overview") =>
                ("expand_depth" \in RecsOf(p) <=> ReadsOf(p) > TwiceMedian)

\* C8, amended: a document not classified stale_high_use whose depth is overview
\* receives expand_depth if and only if the median read count is greater than
\* zero and its read count is strictly greater than twice the median.
C8_ExpandDepthIffPositiveMedian ==
    GatingPassed =>
        \A p \in DOMAIN files :
            ("stale_high_use" \notin RecsOf(p) /\ DepthOf(files, p) = "overview") =>
                ("expand_depth" \in RecsOf(p)
                    <=> (TwiceMedian > 0 /\ ReadsOf(p) > TwiceMedian))

C8_Witness ==
    /\ GatingPassed
    /\ \E p \in DOMAIN files :
          /\ "stale_high_use" \notin RecsOf(p)
          /\ DepthOf(files, p) = "overview"
          /\ "expand_depth" \in RecsOf(p)
          /\ TwiceMedian > 0
          /\ ReadsOf(p) > TwiceMedian

\* C9: for each area whose overview has at least 10 reads, every non-overview
\* document of the area not classified by an earlier category receives
\* low_utilization if and only if its read count is below 10% of the
\* overview's read count; an overview never receives low_utilization.
C9_LowUtilizationIffBelowTenth ==
    GatingPassed =>
        /\ \A p \in DOMAIN files :
              LET ov == P(p.area, "overview", FALSE)
              IN (/\ ov \in DOMAIN files
                  /\ ReadsOf(ov) >= 10
                  /\ ~IsOverviewMd(p)
                  /\ RecsOf(p) \cap {"stale_high_use", "expand_depth"} = {}) =>
                     ("low_utilization" \in RecsOf(p) <=> 10 * ReadsOf(p) < ReadsOf(ov))
        /\ \A p \in DOMAIN files : IsOverviewMd(p) => "low_utilization" \notin RecsOf(p)

C9_Witness ==
    /\ GatingPassed
    /\ ReadsOf(P("a1", "overview", FALSE)) = 30
    /\ ReadsOf(P("a1", "t", FALSE)) = 1
    /\ RecsOf(P("a1", "t", FALSE)) = {"low_utilization"}
    /\ Cardinality({i \in 1..Len(recResult.recommendations) :
            recResult.recommendations[i].recommendation = "low_utilization"}) = 1

\* C10: a document receives stale_high_use if and only if the freshness check
\* reports an issue for it and its read count is strictly greater than the
\* median read count.
C10_StaleHighUseIffStaleAboveMedian ==
    GatingPassed =>
        \A p \in DOMAIN files :
            "stale_high_use" \in RecsOf(p)
                <=> (check_freshness(p, files[p]) # <<>> /\ 2 * ReadsOf(p) > TwiceMedian)

C10_Witness ==
    /\ GatingPassed
    /\ \E p \in DOMAIN files : "stale_high_use" \in RecsOf(p)
    /\ \E p \in DOMAIN files :
          /\ check_freshness(p, files[p]) # <<>>
          /\ 2 * ReadsOf(p) = TwiceMedian
          /\ "stale_high_use" \notin RecsOf(p)

\* C11: a document receives never_referenced if and only if it has zero
\* recorded reads and none of stale_high_use, expand_depth, low_utilization
\* classified it; a document with at least one read never receives it.
C11_NeverReferencedIffUnreadUnclassified ==
    GatingPassed =>
        \A p \in DOMAIN files :
            /\ "never_referenced" \in RecsOf(p)
                  <=> (/\ ReadsOf(p) = 0
                       /\ RecsOf(p) \cap {"stale_high_use", "expand_depth",
                                          "low_utilization"} = {})
            /\ ReadsOf(p) >= 1 => "never_referenced" \notin RecsOf(p)

C11_Witness ==
    /\ GatingPassed
    /\ \E p \in DOMAIN files : RecsOf(p) = {"never_referenced"}
    /\ \E p \in DOMAIN files : ReadsOf(p) = 0 /\ RecsOf(p) = {"low_utilization"}


(***************************************************************************)
(* Claims on check_duplicate_content (SpecDup)                             *)
(***************************************************************************)
DupChecked == op = "check_duplicate_content"

\* the exact-duplicate (or high-similarity) warnings that name a and b
WarningsFor(kind, a, b) ==
    {i \in 1..Len(lastIssues) :
        /\ lastIssues[i].kind = kind
        /\ {lastIssues[i].file, lastIssues[i].arg} = {a, b}}

\* C12: check_duplicate_content never reports any warning, exact-duplicate or
\* high-similarity, for a companion pair (x.md and x.ref.md in one directory).
C12_NoWarningForCompanionPair ==
    DupChecked =>
        \A i \in 1..Len(lastIssues) :
            lastIssues[i].arg # Companion(lastIssues[i].file)


\* the paragraphs of at least 40 characters of a document's body
ParagraphsOf(p) ==
    Range(_extract_paragraphs(_strip_fenced_code_blocks(_body_without_frontmatter(files[p]))))

SharesParagraph(a, b) == ParagraphsOf(a) \cap ParagraphsOf(b) # {}

\* C18: the exact-duplicate pass emits exactly one warning, naming both paths,
\* for each unordered pair of distinct non-companion documents that share at
\* least one identical paragraph of 40 or more characters, and no
\* exact-duplicate warning for any other pair.
C18_OneWarningPerSharingPair ==
    DupChecked =>
        \A a, b \in DOMAIN files :
            a # b =>
                Cardinality(WarningsFor("exact_duplicate", a, b))
                    = IF ~_is_companion_pair(a, b) /\ SharesParagraph(a, b) THEN 1 ELSE 0


(***************************************************************************)
(* Claims on the history log (SpecHistory)                                 *)
(***************************************************************************)
\* the file_list of the most recent snapshot, {} when there is none
LastSnapshotFiles ==
    IF healthLog = <<>> THEN {} ELSE Range(healthLog[Len(healthLog)].file_list)

MissingNow == LastSnapshotFiles \ DOMAIN files

\* C13: check_inventory_regression returns exactly one warning for each path
\* of the most recent snapshot's file_list that is absent from the current
\* documents, and nothing else (none without a snapshot, none for additions).
C13_OneWarningPerMissingPath ==
    op = "check_inventory_regression" =>
        /\ \A p \in MissingNow :
               Cardinality({i \in 1..Len(lastIssues) : lastIssues[i].file = p}) = 1
        /\ \A i \in 1..Len(lastIssues) :
               lastIssues[i].file \in MissingNow /\ lastIssues[i].severity = "warn"

C13_Witness ==
    /\ op = "check_inventory_regression"
    /\ MissingNow # {}
    /\ DOMAIN files \ LastSnapshotFiles # {}
    /\ Len(lastIssues) = 1

\* a first run: no snapshot yet, documents on disk, no warning
C13_WitnessFirstRun ==
    /\ op = "check_inventory_regression"
    /\ healthLog = <<>>
    /\ DOMAIN files # {}
    /\ lastIssues = <<>>

RunOps == {"health", "health_fix", "health_dry_run", "tier2", "combined"}

\* C14: every run of run_health_check, run_tier2_prescreening or
\* run_combined_report appends exactly one line to the history log (the
\* combined report one in total), and no step alters or removes an earlier
\* line.
C14_AppendOnlyOneSnapshotPerRun ==
    [][/\ Len(healthLog') >= Len(healthLog)
       /\ SubSeq(healthLog', 1, Len(healthLog)) = healthLog
       /\ (op' \in RunOps /\ runs' = runs + 1) => Len(healthLog') = Len(healthLog) + 1]_vars

C14_Witness ==
    /\ op = "combined"
    /\ Len(healthLog) = 2
    /\ healthLog[1].tier2 = NoSummary
    /\ healthLog[2].tier1 # NoSummary
    /\ healthLog[2].tier2 # NoSummary


(***************************************************************************)
(* Claims on the cross-link fixer and the dry run (SpecHealth)             *)
(***************************************************************************)
IsLinkLine(l) == l.k \in {"reflink", "seealso"}

\* the file a link line of document p points to
LinkTarget(p, l) == P(p.area, l.a, l.k = "reflink")

CountLine(lines, l) == Cardinality({i \in 1..Len(lines) : lines[i] = l})

\* the link lines the last run wrote into document p
LinksWritten(p) ==
    {l \in Range(files[p]) : IsLinkLine(l) /\ CountLine(files[p], l) > CountLine(prevFiles[p], l)}

CrossLinkActions(p) ==
    {i \in 1..Len(fixes) :
        fixes[i].file = p /\ fixes[i].action \in {"appended_see_also", "inserted_ref_link"}}

StubActions(p) ==
    {i \in 1..Len(fixes) : fixes[i].file = p /\ fixes[i].action = "inserted_stub_section"}

\* C15: every link fix_missing_cross_links writes into a document targets the
\* companion file, which is on disk at the time of the fix; if the companion
\* is absent no link is written, no cross-link action is reported, and the
\* document is unchanged unless the section fixer of the same run wrote it.
C15_LinksOnlyToExistingCompanion ==
    op = "health_fix" =>
        \A p \in DOMAIN files :
            /\ \A l \in LinksWritten(p) :
                   LinkTarget(p, l) = Companion(p) /\ Companion(p) \in DOMAIN prevFiles
            /\ Companion(p) \notin DOMAIN prevFiles =>
                   /\ LinksWritten(p) = {}
                   /\ CrossLinkActions(p) = {}
                   /\ StubActions(p) = {} => files[p] = prevFiles[p]

C15_Witness ==
    /\ op = "health_fix"
    /\ \E p \in DOMAIN files :
           /\ LinksWritten(p) # {}
           /\ CrossLinkActions(p) # {}
           /\ Companion(p) \in DOMAIN prevFiles

\* C16: run_health_check(dry_run=True), with or without fix=True, writes no
\* document and not the curation plan: contents after the call equal the
\* contents before it, and no document is created or deleted.
C16_DryRunWritesNothing ==
    op = "health_dry_run" => files = prevFiles /\ plan = prevPlan

C16_Witness ==
    /\ op = "health_dry_run"
    /\ \E i \in 1..Len(fixes) : fixes[i].action = "would_insert_stub_section"
    /\ \E i \in 1..Len(fixes) : fixes[i].action = "would_insert_cross_link"
    /\ files = prevFiles


(***************************************************************************)
(* Claim on check_ref_see_also (SpecSeeAlso)                               *)
(***************************************************************************)
\* the body has a "See also" reference whose link target is <stem>.md
HasSeeAlsoTo(lines, stem) ==
    \E l \in Range(_body_without_frontmatter(lines)) : l.k = "seealso" /\ l.a = stem

\* C17: for every document with depth reference, check_ref_see_also returns
\* no issue if and only if the body contains a "See also" reference whose
\* link target's stem equals the document's own stem.
C17_PassesIffSeeAlsoToOwnStem ==
    op = "check_ref_see_also" =>
        \A p \in DOMAIN files :
            FmGet(parse_frontmatter(files[p]), "depth") = "reference" =>
                (lastIssues = <<>> <=> HasSeeAlsoTo(files[p], p.stem))


(***************************************************************************)
(* Claim on check_link_graph (SpecLinks)                                   *)
(***************************************************************************)
Orphaned == {lastIssues[i].file : i \in {j \in 1..Len(lastIssues) : lastIssues[j].kind = "orphaned"}}

\* the documents (other than p itself or not) that hold a link to p
InDegree(p) ==
    Cardinality({f \in DOMAIN files :
                    \E l \in Range(files[f]) : \E t \in LinkTargets(l) : Resolve(f, t) = p})

\* C19: check_link_graph never reports overview.md or the index document as
\* orphaned, whatever their in-degree in the link graph.
C19_EntryPointsNeverOrphaned ==
    op = "check_link_graph" =>
        \A p \in Orphaned : ~IsOverviewMd(p) /\ ~IsIndexMd(p)

C19_Witness ==
    /\ op = "check_link_graph"
    /\ \E o, i \in DOMAIN files :
           /\ IsOverviewMd(o) /\ InDegree(o) = 0
           /\ IsIndexMd(i) /\ InDegree(i) = 0
    /\ Orphaned # {}


(***************************************************************************)
(* Claim on merge_managed_section (SpecMerge)                              *)
(***************************************************************************)
\* C20: merge_managed_section is idempotent: for any existing content and any
\* managed section, merging the same section into the result of a first
\* merge returns that result unchanged.
C20_MergeIdempotent ==
    op = "merge" =>
        /\ ~MergeRaises(mergeFile)
        /\ merge_managed_section(mergeFile, mergeSection, render_agents_md(mergeSection))
              = mergeFile.text


(***************************************************************************)
(* Claim on check_curation_plan_sync (SpecPlanSync)                        *)
(***************************************************************************)
SyncItems == IF plan.exists THEN _parse_curation_plan(plan.lines) ELSE <<>>

\* the document an item resolves to: <area>/<slug of name>.md
ItemDoc(item) == P(item.area, _slugify(item.name), FALSE)

\* the items that are checked without document / unchecked with document
CheckedMissing ==
    {i \in 1..Len(SyncItems) : SyncItems[i].checked /\ ItemDoc(SyncItems[i]) \notin DOMAIN files}

UncheckedPresent ==
    {i \in 1..Len(SyncItems) : ~SyncItems[i].checked /\ ItemDoc(SyncItems[i]) \in DOMAIN files}

\* the topic documents on disk no item resolves to
UnlistedTopics ==
    {p \in DOMAIN files :
        /\ p.area # "" /\ ~IsOverviewMd(p) /\ ~EndsWithRefMd(p)
        /\ \A i \in 1..Len(SyncItems) : ItemDoc(SyncItems[i]) # p}

IssuesOf(kind) == {j \in 1..Len(lastIssues) : lastIssues[j].kind = kind}

\* one warning per mismatched item, one per unlisted topic, nothing else
StatedSyncWarnings ==
    /\ \A n \in ItemNames :
          /\ Cardinality({j \in IssuesOf("plan_checked_missing") : lastIssues[j].arg = n})
                = Cardinality({i \in CheckedMissing : SyncItems[i].name = n})
          /\ Cardinality({j \in IssuesOf("plan_should_check") : lastIssues[j].arg = n})
                = Cardinality({i \in UncheckedPresent : SyncItems[i].name = n})
    /\ \A p \in UnlistedTopics :
          Cardinality({j \in IssuesOf("plan_not_in_plan") : lastIssues[j].file = p}) = 1
    /\ Len(lastIssues)
          = Cardinality(CheckedMissing) + Cardinality(UncheckedPresent)
              + Cardinality(UnlistedTopics)
    /\ \A j \in 1..Len(lastIssues) : lastIssues[j].severity = "warn"

\* C21 as stated: check_curation_plan_sync emits exactly one warning for each
\* plan item that is checked while its document is missing or unchecked while
\* it exists, exactly one for each topic document on disk that no plan item
\* resolves to, and no other issue.
C21_SyncWarningsForAnyPlan ==
    op = "check_curation_plan_sync" => StatedSyncWarnings

\* C21 amended: the same, for a plan that exists and has at least one item;
\* a missing plan or a plan without items yields no issue at all.
C21_SyncWarningsWhenPlanHasItems ==
    op = "check_curation_plan_sync" =>
        IF SyncItems = <<>> THEN lastIssues = <<>> ELSE StatedSyncWarnings

C21_Witness ==
    /\ op = "check_curation_plan_sync"
    /\ CheckedMissing # {}
    /\ UnlistedTopics # {}
    /\ Len(lastIssues) = 2


(***************************************************************************)
(* Claim on the fixers' handling of foreign issues (SpecFixers)            *)
(***************************************************************************)
\* an issue one of the two fixers reads when called on document p
RecognizedFor(i, p) ==
    i.file = p /\ (MsgHasMissingSection(i) \/ MsgHasSeeAlso(i) \/ MsgHasGoDeeper(i))

NothingRecognizedFor(p) == \A j \in 1..Len(lastIssues) : ~RecognizedFor(lastIssues[j], p)

\* C22: given an issue list with no issue they recognize for the target file
\* (an empty list, issues naming other files, other message kinds),
\* fix_missing_sections and fix_missing_cross_links return no action and
\* leave the file unchanged.
C22_NoOpWithoutRecognizedIssue ==
    op = "fixers" =>
        \A p \in DOMAIN files :
            NothingRecognizedFor(p) =>
                /\ files[p] = prevFiles[p]
                /\ \A j \in 1..Len(fixes) : fixes[j].file # p

C22_Witness ==
    /\ op = "fixers"
    /\ lastIssues # <<>>
    /\ \A p \in DOMAIN files : NothingRecognizedFor(p)
    /\ \E p \in DOMAIN prevFiles :
           \E j \in 1..Len(PerFileIssues(p, prevFiles[p])) :
               MsgHasMissingSection(PerFileIssues(p, prevFiles[p])[j])
    /\ \E p \in DOMAIN prevFiles :
           \E j \in 1..Len(PerFileIssues(p, prevFiles[p])) :
               MsgHasSeeAlso(PerFileIssues(p, prevFiles[p])[j])
    /\ files = prevFiles
    /\ fixes = <<>>


(***************************************************************************)
(* Claims on parse_frontmatter (SpecFrontmatter) and _jaccard              *)
(* (SpecShingles)                                                          *)
(***************************************************************************)
DelimiterLines(lines) == {i \in 1..Len(lines) : lines[i] = Delim}

\* C23: for every document text with fewer than two delimiter lines,
\* parse_frontmatter returns an empty record.
C23_EmptyWithoutTwoDelimiters ==
    op = "parse_frontmatter" =>
        \A p \in DOMAIN files :
            Cardinality(DelimiterLines(files[p])) < 2 => DOMAIN lastResult = {}

C23_Witness ==
    /\ op = "parse_frontmatter"
    /\ \E p \in DOMAIN files :
           /\ Cardinality(DelimiterLines(files[p])) = 1
           /\ files[p][1] = Delim
           /\ \E i \in 2..Len(files[p]) : files[p][i].k = "depth"
    /\ DOMAIN lastResult = {}

\* C24: the Jaccard similarity is symmetric: similarity(A, B) equals
\* similarity(B, A) for any two shingle sets, empty ones included.
C24_JaccardSymmetric ==
    op = "jaccard" => lastResult.ab = lastResult.ba

C24_Witness ==
    /\ op = "jaccard"
    /\ lastResult.a # lastResult.b
    /\ ShinglesOf(files, lastResult.a) # {}
    /\ ShinglesOf(files, lastResult.b) # {}
    /\ ShinglesOf(files, lastResult.a) # ShinglesOf(files, lastResult.b)
    /\ lastResult.ab.n > 0
    /\ lastResult.ab = lastResult.ba

\* an empty shingle set against a non-empty one
C24_WitnessEmpty ==
    /\ op = "jaccard"
    /\ ShinglesOf(files, lastResult.a) = {}
    /\ ShinglesOf(files, lastResult.b) # {}
    /\ lastResult.ab = lastResult.ba


(***************************************************************************)
(* Claims on the utilization log (SpecUtilization)                         *)
(***************************************************************************)
LoggedPaths == {utilLog[i].file : i \in 1..Len(utilLog)}

TimestampsOf(p) == {utilLog[i].ts : i \in {j \in 1..Len(utilLog) : utilLog[j].file = p}}

\* C26: after any sequence of record_reference calls read_utilization
\* reports, for each logged path, a count equal to the number of calls for
\* it, the earliest of their timestamps as first_referenced and the latest
\* as last_referenced (so first <= last), and no entry for other paths.
C26_StatsMatchLog ==
    op = "read_utilization" =>
        /\ DOMAIN lastResult = LoggedPaths
        /\ \A p \in LoggedPaths :
              /\ lastResult[p].count = ReadsOf(p)
              /\ lastResult[p].first_referenced = SetMin(TimestampsOf(p))
              /\ lastResult[p].last_referenced = SetMax(TimestampsOf(p))
              /\ lastResult[p].first_referenced <= lastResult[p].last_referenced

\* one path logged three times with the clock set back in between, the
\* other path never logged
C26_Witness ==
    /\ op = "read_utilization"
    /\ LoggedPaths = {P("a1", "t", FALSE)}
    /\ Len(utilLog) = 3
    /\ utilLog[1].ts > utilLog[2].ts
    /\ utilLog[3].ts > utilLog[1].ts
    /\ lastResult[P("a1", "t", FALSE)] =
           [count |-> 3, first_referenced |-> utilLog[2].ts,
            last_referenced |-> utilLog[3].ts]


(***************************************************************************)
(* Claims on what fix_missing_sections keeps (SpecSections)                *)
(***************************************************************************)
\* a is b with lines left out
RECURSIVE IsSubsequence(_, _)
IsSubsequence(a, b) ==
    IF a = <<>> THEN TRUE
    ELSE IF b = <<>> THEN FALSE
    ELSE IF Head(a) = Head(b) THEN IsSubsequence(Tail(a), Tail(b))
    ELSE IsSubsequence(a, Tail(b))

\* C25: fix_missing_sections only inserts lines: every line of the original
\* document is still present in its original relative order, and exactly
\* four lines are added per reported inserted_stub_section action.
C25_OnlyInsertsFourLinesPerStub ==
    op = "fix_missing_sections" =>
        \A p \in DOMAIN files :
            /\ p \in DOMAIN prevFiles
            /\ IsSubsequence(prevFiles[p], files[p])
            /\ \A i \in 1..Len(fixes) : fixes[i].action = "inserted_stub_section"
            /\ Len(files[p]) = Len(prevFiles[p]) + 4 * Len(fixes)

\* a document with a heading and text below it gets two or more stubs, one
\* of them between original lines
C25_Witness ==
    /\ op = "fix_missing_sections"
    /\ Len(fixes) >= 2
    /\ \E p \in DOMAIN files :
          /\ Len(prevFiles[p]) >= Len(Frontmatter("working")) + 3
          /\ files[p] # prevFiles[p]
          /\ files[p][Len(files[p])] = prevFiles[p][Len(prevFiles[p])]
          /\ files[p][Len(files[p])] # Blank


(***************************************************************************)
(* Claims on the summary of run_health_check (SpecReport)                  *)
(***************************************************************************)
\* the documents the run discovered that no fail-severity issue names
CleanDocuments ==
    {p \in DOMAIN prevFiles :
        ~\E i \in 1..Len(lastIssues) :
            lastIssues[i].file = p /\ lastIssues[i].severity = "fail"}

\* C29: in every run_health_check report pass_count equals the number of
\* discovered documents without a fail-severity issue, and hence
\* 0 <= pass_count <= total_files, also when an area lacks its overview.
C29_PassCountCountsCleanDocuments ==
    op \in {"health", "health_fix"} =>
        /\ lastResult.pass_count = Cardinality(CleanDocuments)
        /\ 0 <= lastResult.pass_count
        /\ lastResult.pass_count <= lastResult.total_files

\* holds in the model: the statement for runs in which every area has its
\* overview
C29_HoldsWithOverviews ==
    (/\ op \in {"health", "health_fix"}
     /\ \A p \in DOMAIN prevFiles : P(p.area, "overview", FALSE) \in DOMAIN prevFiles) =>
        /\ lastResult.pass_count = Cardinality(CleanDocuments)
        /\ 0 <= lastResult.pass_count
        /\ lastResult.pass_count <= lastResult.total_files

\* a run that reports a negative pass_count
C29_NegativePassCount ==
    /\ op = "health"
    /\ lastResult.pass_count < 0


(***************************************************************************)
(* Claims on the reporting of removed documents (SpecInventory)            *)
(***************************************************************************)
\* the snapshots since the last one a run_health_check took part in (all
\* snapshots when there is none)
SnapshotsSinceHealthRun ==
    LET tier1s == {j \in 1..Len(healthLog) : healthLog[j].tier1 # NoSummary}
    IN IF tier1s = {} THEN 1..Len(healthLog) ELSE SetMax(tier1s)..Len(healthLog)

\* documents an orchestrator has discovered since then that are gone now
RemovedSinceHealthRun ==
    UNION {Range(healthLog[j].file_list) : j \in SnapshotsSinceHealthRun} \ DOMAIN files

InventoryReported == {lastIssues[i].file : i \in {j \in 1..Len(lastIssues) :
                                                    lastIssues[j].kind = "inventory_missing"}}

\* C27: each removal of a previously discovered document is reported by the
\* first run_health_check that executes after the removal and by no later
\* run: every run_health_check reports exactly the discovered documents
\* removed since the run_health_check before it.
C27_RemovalReportedByNextHealthRun ==
    [][(op' \in {"health", "combined"} /\ runs' = runs + 1) =>
           InventoryReported' = RemovedSinceHealthRun]_vars

\* holds in the model: a run_health_check reports exactly the documents of
\* the latest snapshot, whichever orchestrator wrote it, that are gone
C27_ReportsAgainstLatestSnapshot ==
    [][(op' \in {"health", "combined"} /\ runs' = runs + 1) =>
           InventoryReported' =
               (IF healthLog = <<>> THEN {}
                ELSE Range(healthLog[Len(healthLog)].file_list) \ DOMAIN files)]_vars

\* a run_health_check that follows a removal and a run_tier2_prescreening
\* and reports nothing
C27_RemovalMissed ==
    /\ op = "health"
    /\ Len(healthLog) = 3
    /\ healthLog[2].tier1 = NoSummary
    /\ Range(healthLog[1].file_list) \ Range(healthLog[2].file_list) # {}
    /\ InventoryReported = {}


(***************************************************************************)
(* Claims on orphan detection (SpecLinks)                                  *)
(***************************************************************************)
\* the documents check_link_graph reads (index.md is left out) among ds that
\* hold a relative link resolving to p
LinkSources(p, ds) ==
    {f \in ds : /\ ~IsIndexMd(f)
                /\ \E l \in Range(files[f]) : \E t \in LinkTargets(l) : Resolve(f, t) = p}

\* C30: check_link_graph reports a document other than overview.md or
\* index.md as orphaned if and only if no other discovered document contains
\* a relative link that resolves to it.
C30_OrphanedIffNoOtherDocumentLinks ==
    op = "check_link_graph" =>
        \A p \in DOMAIN files :
            ~(IsOverviewMd(p) \/ IsIndexMd(p)) =>
                (p \in Orphaned <=> LinkSources(p, DOMAIN files \ {p}) = {})

\* holds in the model: the same with the document's own links counted
C30_OrphanedIffNoDocumentLinks ==
    op = "check_link_graph" =>
        \A p \in DOMAIN files :
            ~(IsOverviewMd(p) \/ IsIndexMd(p)) =>
                (p \in Orphaned <=> LinkSources(p, DOMAIN files) = {})

\* a document whose only inbound link is its own and that is not reported
C30_SelfLinkHidesOrphan ==
    /\ op = "check_link_graph"
    /\ \E p \in DOMAIN files :
          /\ ~(IsOverviewMd(p) \/ IsIndexMd(p))
          /\ LinkSources(p, DOMAIN files) = {p}
          /\ p \notin Orphaned


(***************************************************************************)
(* Claims on repeated fix runs (SpecConverge)                              *)
(***************************************************************************)
\* a further run_health_check(fix=True) changes no document and not the plan
Converged ==
    LET again == run_health_check(files, plan, TRUE, FALSE)
    IN again.files = files /\ again.plan = plan

HeadingInFrontmatter ==
    \E p \in DOMAIN files :
        LET ds == DelimiterIndices(files[p])
        IN /\ Cardinality(ds) >= 2
           /\ \E i \in (SetMin(ds) + 1)..(SetMin(ds \ {SetMin(ds)}) - 1) :
                  StartsWithH2(At(files[p], i))

\* C28: repeated run_health_check(fix=True) runs on an otherwise unmodified
\* knowledge base converge: after a bounded number of runs (MaxRuns) a state
\* is reached in which a further run changes no document and not the plan.
C28_FixRunsConverge == runs = MaxRuns => Converged

\* holds in the model: convergence when no frontmatter holds a heading line
C28_ConvergeWithoutHeadingInFrontmatter ==
    (runs = MaxRuns /\ ~HeadingInFrontmatter) => Converged

\* the document has grown by one line in each of MaxRuns runs and the next
\* run would change it again
C28_StillGrowing ==
    /\ runs = MaxRuns
    /\ op = "health_fix"
    /\ fixes = <<Action(PathSeq[2], "inserted_ref_link", "t")>>
    /\ Len(files[PathSeq[2]]) = Len(prevFiles[PathSeq[2]]) + 1
    /\ ~Converged

====
